---- MODULE Spec2Model ----
(***************************************************************************)
(* A model of the SOMweb client (somweb/client.py, somweb/httpclient.py).  *)
(*                                                                         *)
(* One SomwebClient is shared by the coroutines in Tasks, all running on   *)
(* one asyncio event loop: a coroutine runs without interruption from one  *)
(* suspension point to the next.  The suspension points are the network    *)
(* round trip of HttpClient.async_get / async_post and the close of the    *)
(* client-owned connection pool.  Every action below is one such           *)
(* uninterrupted segment of a method of the client.                        *)
(*                                                                         *)
(* The device is the environment: it answers every request with any        *)
(* status and body, or the request fails in transport.                     *)
(***************************************************************************)
EXTENDS Integers, Sequences, FiniteSets, TLC

VARIABLES
    task,                   \* per coroutine: the call it is running
    last,                   \* the call that ended most recently, as its caller sees it
    calls,                  \* number of calls started so far
    http_client,            \* SomwebClient.__http_client: "HttpClient" or None
    session,                \* HttpClient.__session: "ClientSession" or None
    private_session,        \* HttpClient.__private_session
    pool_closed,            \* ClientSession.closed of the connection pool
    pool_close_calls,       \* number of ClientSession.close() calls made
    current_token,          \* SomwebClient.__current_token
    current_page_content,   \* SomwebClient.__current_page_content (optional)
    page_content_bound,     \* whether the attribute has been assigned at all
    token_source,           \* history: the page current_token was extracted from
    core,                   \* the client of somweb/core.py: its attributes
    cli,                    \* main.py: the run of execute() on the client, if any
    assertions              \* whether the interpreter executes assert statements

vars == << task, last, calls, http_client, session, private_session, pool_closed,
           pool_close_calls, current_token, current_page_content,
           page_content_bound, token_source, core, cli, assertions >>

----------------------------------------------------------------------------
(* Bounds and values *)

\* Calls the coroutines may start in all.
MaxCalls == 2

\* Calls made on the client of somweb/core.py in all.
MaxCoreCalls == 4

\* The coroutines sharing the client.
Tasks == {"t1", "t2"}

\* Python's None for strings; an optional page is a sequence of length <= 1.
None == "None"
NoPage == << >>
Some(p) == << p >>

\* HTTP statuses the device answers with, and the limit of a success status.
HTTP_OK == 200
HTTP_NOT_FOUND == 404
HTTP_ERROR_LIMIT == 400
\* A status below the limit that is not 200.
HTTP_NO_CONTENT == 204

\* const.CHECK_DOOR_STATE_INTERVAL and const.REQUEST_TIMEOUT, in seconds.
CHECK_DOOR_STATE_INTERVAL == 2
REQUEST_TIMEOUT == 30

\* The longest timeout_in_seconds a caller passes to wait_for_door_state, and
\* the longest a status round trip takes, in seconds.
MaxTimeout == 3
MaxDelay == 1

\* The doors callers ask for, and models.DoorActionType.
Doors == {2, 4}
DoorActionType == {"CLOSE", "OPEN"}

\* models.DoorStatusType
DoorStatusType == {"OPEN", "CLOSED", "UNKNOWN"}

\* Bodies of the plain-text endpoints (status, toggle).
TextBodies == {"OK", "FAIL", "NOPE"}

\* Bodies of the liveness and update-check endpoints.
FlagBodies == {"0", "1", "2"}

----------------------------------------------------------------------------
(* Page content: a sequence of elements, lines separated by NL *)

Blah == [kind |-> "text", id |-> 0, value |-> "BLAH"]
NL == [kind |-> "nl", id |-> 0, value |-> ""]
\* <input id="webtoken" type="hidden" value="v"/>
WebTokenInput(v) == [kind |-> "webtoken", id |-> 0, value |-> v]
\* <input type="submit" class="tab-door ..." name="tab-doorN" id="tab-doorN" value="name">
DoorInput(i, n) == [kind |-> "door", id |-> i, value |-> n]

\* <meta name="UDI" content="v" />
UdiMeta(v) == [kind |-> "udi", id |-> 0, value |-> v]
\* <a href="index.php?op=v" ...>
Link(v) == [kind |-> "link", id |-> 0, value |-> v]

\* The login pages the device answers with: a user page with two tokens, an
\* administrator page with two doors, and a page without a login, whose one
\* door input has an empty name.
LoginPages ==
    { << UdiMeta("none"), UdiMeta("1A2B"), NL, Blah,
         WebTokenInput("TOK123"), WebTokenInput("55MyToken66"), NL, Link("logout") >>,
      << DoorInput(2, "Door2"), NL, DoorInput(4, "Door4"), WebTokenInput("TOK123"),
         Link("config") >>,
      << Blah, NL, DoorInput(6, ""), Blah >> }

SetMin(S) == CHOOSE x \in S : \A y \in S : x <= y
SetMax(S) == CHOOSE x \in S : \A y \in S : x >= y

\* Index of the last element of the line that holds element i ('.' matches no newline).
LineEnd(content, i) ==
    LET nls == { j \in i..Len(content) : content[j].kind = "nl" }
    IN  IF nls = {} THEN Len(content) ELSE SetMin(nls) - 1

\* value="\w+" : the element carries a value attribute made of word characters.
HasWordValue(e) == e.kind \in {"webtoken", "door"} /\ e.value # ""

\* The element ends with "/>".
SelfClosed(e) == e.kind = "webtoken"

\* RE_WEBTOKEN  <\s*input\s+id\s*=\s*"webtoken".*value="(?P<webtoken>\w+)".*\/>
\* matched at start element i: the greedy .* takes the last value attribute of
\* the line that is still followed by a "/>".
WebTokenCandidates(content, i) ==
    { j \in i..LineEnd(content, i) :
        /\ HasWordValue(content[j])
        /\ \E k \in j..LineEnd(content, i) : SelfClosed(content[k]) }

\* Mutant: the pattern without its id="webtoken" anchor takes the first value
\* attribute of the page.
extract_web_token_unanchored(html_content) ==
    LET valued == { i \in 1..Len(html_content) : HasWordValue(html_content[i]) }
    IN  IF valued = {} THEN None ELSE html_content[SetMin(valued)].value

\* SomwebClient.__extract_web_token: RE_WEBTOKEN.search, leftmost match.
extract_web_token(html_content) ==
    LET starts == { i \in 1..Len(html_content) :
                      /\ html_content[i].kind = "webtoken"
                      /\ WebTokenCandidates(html_content, i) # {} }
    IN  IF starts = {} THEN None
        ELSE html_content[SetMax(WebTokenCandidates(html_content, SetMin(starts)))].value

\* models.Door
Door(id, name) == [id |-> id, name |-> name]

\* RE_DOORS  <input type="submit" class="tab-door.." name="tab-door\d+"
\*           id="tab-door(?P<id>\d+)" value="(?P<name>[\w\s]+)" />
\* The element is a door input whose name is not empty.
IsDoorElement(e) == e.kind = "door" /\ e.value # ""

\* Mutant: every door input is taken, whatever its name.
get_doors_from_page_content_any_name(page_content) ==
    LET inputs == SelectSeq(page_content, LAMBDA e : e.kind = "door")
    IN  [k \in 1..Len(inputs) |-> Door(inputs[k].id, inputs[k].value)]

\* SomwebClient.get_doors_from_page_content: RE_DOORS.finditer, the matches in
\* document order, each mapped to Door(int(id), name).
get_doors_from_page_content(page_content) ==
    LET matches == SelectSeq(page_content, IsDoorElement)
    IN  [k \in 1..Len(matches) |-> Door(matches[k].id, matches[k].value)]

\* [0-9a-fA-F]+ : the strings of hexadecimal digits among the contents used.
HexStrings == {"1A2B"}

\* RE_UDI  <meta name="UDI" content="(?P<udi>[0-9a-fA-F]+)" />
\* RE_UDI.search: the content of the leftmost meta element that matches.
udi_of(page_content) ==
    LET metas == { i \in 1..Len(page_content) :
                     /\ page_content[i].kind = "udi"
                     /\ page_content[i].value \in HexStrings }
    IN  IF metas = {} THEN None ELSE page_content[SetMin(metas)].value

\* Mutant: every link counts as the configuration link.
is_admin_of_any_link(page_content) ==
    \E i \in 1..Len(page_content) : page_content[i].kind = "link"

\* RE_USER_IS_ADMIN  <a href=".*?index.php\?op=config"
\* RE_USER_IS_ADMIN.search: some link is followed, on its line, by the
\* configuration address.
is_admin_of(page_content) ==
    \E i \in 1..Len(page_content) :
        /\ page_content[i].kind = "link"
        /\ \E k \in i..LineEnd(page_content, i) :
              page_content[k].kind = "link" /\ page_content[k].value = "config"

----------------------------------------------------------------------------
(* The device info page: rows of a label and a value *)

\* <div>label</div></div> <div class=".."> <div class="..">value</div>
InfoRow(label, value) ==
    [label |-> label, value |-> value, quality |-> "", unit |-> ""]
\* ... <div class="wifi-signal-quality">level unit</div>
WifiRow(quality, level, unit) ==
    [label |-> "WiFi signal level:", value |-> level, quality |-> quality, unit |-> unit]

\* The device info pages the device answers with.
DeviceInfoPages ==
    { << InfoRow("Remote Access:", "ENABLED"), InfoRow("Firmware version:", "2.8.3"),
         InfoRow("IP Address:", "10.0.0.5"), WifiRow("4", "-52", "dBm"),
         InfoRow("Time zone:", "UTC") >>,
      << InfoRow("Remote Access:", "DISABLED"), WifiRow("", "weak", ""),
         InfoRow("IP Address:", "10.0.0.5") >>,
      << InfoRow("Firmware version:", "2.8.3"), InfoRow("Time zone:", "UTC") >> }

\* The row patterns: RE_WIFI_SIGNAL wants a digit for the quality, the others
\* take any value.
RowMatches(row, label) ==
    /\ row.label = label
    /\ label = "WiFi signal level:" => row.quality # ""

\* get_value_using_regex: the group of the leftmost match, or None.
get_value_using_regex(content, label, group_name) ==
    LET rows == { i \in 1..Len(content) : RowMatches(content[i], label) }
        row == content[SetMin(rows)]
    IN  IF rows = {} THEN None
        ELSE CASE group_name = "quality" -> row.quality
               [] group_name = "unit"    -> row.unit
               [] OTHER                  -> row.value

PyBool(b) == IF b THEN "True" ELSE "False"

\* models.DeviceInfo, as async_get_device_info builds it from a page.
DeviceInfo(page_content) ==
    [remote_access_enabled |->
         PyBool(get_value_using_regex(page_content, "Remote Access:", "remote_access")
                    = "ENABLED"),
     firmware_version |->
         get_value_using_regex(page_content, "Firmware version:", "firmware_version"),
     ip_address |-> get_value_using_regex(page_content, "IP Address:", "ip_address"),
     wifi_signal_quality |->
         get_value_using_regex(page_content, "WiFi signal level:", "quality"),
     wifi_signal_level |->
         get_value_using_regex(page_content, "WiFi signal level:", "level"),
     wifi_signal_unit |->
         get_value_using_regex(page_content, "WiFi signal level:", "unit"),
     time_zone |-> get_value_using_regex(page_content, "Time zone:", "time_zone")]

\* An optional DeviceInfo is a sequence of length <= 1.
NoInfo == << >>

----------------------------------------------------------------------------
(* Pure parts of the client *)

\* Mutant: the status of the response is not looked at.
StatusOk_unchecked(status) == TRUE

\* "400 > response.status"
StatusOk(status) == HTTP_ERROR_LIMIT > status

\* Mutant: the two literals the wrong way round.
door_status_types_swapped(resp_content) ==
    CASE resp_content = "OK"   -> "OPEN"
      [] resp_content = "FAIL" -> "CLOSED"
      [] OTHER                 -> "UNKNOWN"

\* SomwebClient.__door_status_types.get(resp_content, DoorStatusType.UNKNOWN)
door_status_types(resp_content) ==
    CASE resp_content = "OK"   -> "CLOSED"
      [] resp_content = "FAIL" -> "OPEN"
      [] OTHER                 -> "UNKNOWN"

\* Mutant: the two actions the wrong way round.
door_action_to_status_switcher_swapped(door_action) ==
    CASE door_action = "CLOSE" -> "OPEN"
      [] door_action = "OPEN"  -> "CLOSED"
      [] OTHER                 -> None

\* door_action_to_status_switcher.get(door_action)
door_action_to_status_switcher(door_action) ==
    CASE door_action = "CLOSE" -> "CLOSED"
      [] door_action = "OPEN"  -> "OPEN"
      [] OTHER                 -> None

\* Mutant: the body alone decides.
ToggleAccepted_body_only(status, body) == "OK" = body

\* 400 > response.status and "OK" == await response.text()
ToggleAccepted(status, body) == StatusOk(status) /\ "OK" = body

\* Mutant: any answer with a success status counts as alive.
IsAliveAccepted_status_only(status, body) == StatusOk(status)

\* 400 > response.status and "1" == await response.text()
IsAliveAccepted(status, body) == StatusOk(status) /\ "1" = body

\* Mutant: every status below the limit is taken for a 200.
UpdateAvailable_any_success(status, body) == StatusOk(status) /\ "1" = body

\* 200 == response.status, then "1" == result
UpdateAvailable(status, body) == HTTP_OK = status /\ "1" = body

\* web_token = token if token is not None else self.__current_token
\* Mutant: the url carries the token of the session whatever the caller gave.
WebToken_session_only(token) == current_token

WebToken(token) == IF token # None THEN token ELSE current_token

\* models.AuthResponse
AuthResponse(success, token, page_content) ==
    [success |-> success, token |-> token, page_content |-> page_content]

\* AuthResponse(): the defaults of the named tuple.
AuthResponseDefault == AuthResponse(FALSE, None, NoPage)

\* Mutant: the token is replaced, the page content is left as it was.
StoredSession_stale_page(body) ==
    [page_content |-> current_page_content, token |-> extract_web_token(body)]

\* What async_authenticate stores from a successful response:
\*   self.__current_page_content = await response.text()
\*   self.__current_token = self.__extract_web_token(self.__current_page_content)
StoredSession(body) ==
    [page_content |-> Some(body), token |-> extract_web_token(body)]

\* Mutant: a missing token returns the defaults, the page content dropped.
AuthResult_no_page(token, page_content) ==
    IF token = None
    THEN AuthResponse(FALSE, None, NoPage)
    ELSE AuthResponse(TRUE, token, page_content)

\* Mutant: the success flag is left at its default when a token was found.
AuthResult_flag_default(token, page_content) ==
    AuthResponse(FALSE, token, page_content)

\* What async_authenticate returns once the session state is stored.
AuthResult(token, page_content) ==
    IF token = None
    THEN AuthResponse(FALSE, None, page_content)
    ELSE AuthResponse(TRUE, token, page_content)

----------------------------------------------------------------------------
(* Transport: somweb/httpclient.py *)

\* HttpClient.closed
HttpClientClosed == session = None \/ pool_closed

\* SomwebClient.closed
closed == http_client = None \/ HttpClientClosed

\* Mutant: a request leaves whatever has become of the client.
CanRequest_unchecked == TRUE

\* A request leaves the client: self.__http_client is an HttpClient, its
\* session is a ClientSession, and the pool accepts requests.
CanRequest == http_client # None /\ session # None /\ ~pool_closed

\* What the device, or the network, does with one request.
\* nobody is the body of a request that got no response.
Outcomes(bodies, nobody) ==
    [exc : {FALSE}, status : {HTTP_OK, HTTP_NOT_FOUND}, body : bodies]
    \cup { [exc |-> TRUE, status |-> 0, body |-> nobody] }

LoginOutcomes == Outcomes(LoginPages, << >>)
InfoOutcomes ==
    Outcomes(DeviceInfoPages, << >>)
    \cup [exc : {FALSE}, status : {HTTP_NO_CONTENT}, body : DeviceInfoPages]
TextOutcomes == Outcomes(TextBodies, None)

\* The same for the liveness and update-check endpoints, which tell a 200
\* from the other statuses below the limit.
FlagOutcomes ==
    Outcomes(FlagBodies, None)
    \cup [exc : {FALSE}, status : {HTTP_NO_CONTENT}, body : FlagBodies]

\* HttpClient.async_get / async_post after the round trip: the exception the
\* call raises, or None when it returns the response.  A transport error or a
\* timeout raises, as does a pool closed under the request; the cookie update
\* reads self.__session again; the assert raises on a status >= 400 when
\* assert statements are executed.
HttpError(o) ==
    CASE o.exc \/ pool_closed                              -> "ClientError"
      [] session = None                                    -> "AttributeError"
      [] assertions /\ ~(o.status < HTTP_ERROR_LIMIT)      -> "AssertionError"
      [] OTHER                                             -> None

\* A request that cannot leave: self.__http_client or its session is None, or
\* the pool is closed.
RequestError ==
    IF http_client = None \/ session = None THEN "AttributeError" ELSE "RuntimeError"

----------------------------------------------------------------------------
(* Coroutines *)

\* The frame of a call in progress: the requests it has sent so far to the
\* status, toggle and login endpoints, and (get_reqs) to the endpoint of its
\* own of is_alive, update_available and get_device_info.  A wait for a door
\* state keeps the state and timeout asked for, the seconds elapsed since it
\* started up to its latest step, whether a poll has returned the state asked
\* for (hit), whether its deadline fired (expired) and whether a status
\* request of it is unanswered (polling).  A door action records the token the
\* session held when it was called (start_token).  A coroutine that called a
\* deprecated alias and has not run its body yet holds the call (alias).  prev_toggles is what a door action knows
\* of the call its caller made immediately before: the toggle requests that
\* call sent if it was the same door action on the same door, -1 otherwise.
NoAlias ==
    [name |-> None, door |-> 0, action |-> None, state |-> None, timeout |-> 0,
     token |-> None]

IdleTask ==
    [op |-> "idle", pc |-> "idle", door |-> 0, action |-> None, token |-> None,
     status_reqs |-> 0, toggle_reqs |-> 0, post_reqs |-> 0, get_reqs |-> 0,
     probe |-> None, sent_token |-> None, prev_toggles |-> -1,
     state |-> None, timeout |-> 0, elapsed |-> 0, hit |-> FALSE, expired |-> FALSE,
     polling |-> FALSE, start_token |-> None, alias |-> NoAlias, sleeps |-> 0]

\* The return a step delivers: the frame of the call that ended in the step;
\* what HttpClient gave it last, a response (rstatus, rbody or rpage) or an
\* exception (error, with rstatus the status the device sent, if any); and the
\* value returned, "Raised" when the call raises to its caller, with the
\* AuthResponse (auth), DeviceInfo (info) or door list (doors) it stands for,
\* the last two with the page they were read from (page).  A step that ends no call delivers NoLast.
NoLast ==
    [task |-> None, frame |-> IdleTask,
     error |-> None, rstatus |-> 0, rbody |-> None, rpage |-> NoPage,
     result |-> None, auth |-> AuthResponseDefault, info |-> NoInfo,
     page |-> NoPage, doors |-> << >>]

\* main.py not running: no action chosen, nothing printed.
NoCli == [pc |-> "off", action |-> None, door |-> 0, printed |-> None]

\* A coroutine starts a call when it runs none.  The calls of a run of main.py
\* are those of its one action, and need no budget.
Startable(t) == task[t].pc = "idle" /\ (calls < MaxCalls \/ cli.pc # "off")

\* The toggle requests of the call that t made immediately before this one,
\* when that call was the door action (door_id, door_action).
PrevToggles(t, door_id, door_action) ==
    IF /\ last.task = t
       /\ last.frame.op = "door_action"
       /\ last.frame.door = door_id
       /\ last.frame.action = door_action
    THEN last.frame.toggle_reqs
    ELSE -1

NoResponse == [exc |-> FALSE, status |-> 0, body |-> None]

\* The call of frame r ends after the round trip o, which raised error or
\* returned the response: its caller gets result (and auth, info).
EndWith(t, r, o, error, result, auth, info) ==
    /\ task' = [task EXCEPT ![t] = IdleTask]
    /\ UNCHANGED << core, cli >>
    /\ last' = [task |-> t, frame |-> [r EXCEPT !.pc = "done"],
                error |-> error,
                rstatus |-> o.status,
                rbody |-> IF error = None /\ r.op \notin {"authenticate", "get_device_info"}
                          THEN o.body ELSE None,
                rpage |-> IF error = None /\ r.op = "authenticate"
                          THEN Some(o.body) ELSE NoPage,
                result |-> result,
                auth |-> auth,
                info |-> info,
                page |-> IF info # NoInfo THEN Some(o.body) ELSE NoPage,
                doors |-> << >>]

End(t, r, o, error, result, auth) == EndWith(t, r, o, error, result, auth, NoInfo)

\* A call that ends before it sends anything.
EndAtOnce(t, r, error, result) ==
    /\ End(t, r, NoResponse, error, result, AuthResponseDefault)
    /\ calls' = calls + 1

\* A call that suspends at its first request: its frame is kept.
Suspend(t, r) ==
    /\ task' = [task EXCEPT ![t] = r]
    /\ calls' = calls + 1
    /\ last' = NoLast
    /\ UNCHANGED << core, cli >>

\* A call that goes on to its next suspension.
Continue(t, r) ==
    /\ task' = [task EXCEPT ![t] = r]
    /\ last' = NoLast
    /\ UNCHANGED << calls, core, cli >>

\* The call that t runs ends.
Finish(t, o, error, result, auth) ==
    /\ End(t, task[t], o, error, result, auth)
    /\ UNCHANGED calls

\* core.SomwebClient after construction: the class attributes, all None.  The
\* optional door list is a sequence of length <= 1, as an optional page is.
CoreClient ==
    [somWebPageContent |-> NoPage, currentToken |-> None, doors |-> << >>, calls |-> 0]

UnchangedTransport ==
    UNCHANGED << http_client, session, private_session, pool_closed,
                 pool_close_calls, assertions >>
UnchangedSession ==
    UNCHANGED << current_token, current_page_content, page_content_bound,
                 token_source >>

Init ==
    /\ task = [t \in Tasks |-> IdleTask]
    /\ last = NoLast
    /\ calls = 0
    /\ http_client = "HttpClient"
    /\ session = "ClientSession"
    /\ private_session \in BOOLEAN
    /\ pool_closed = FALSE
    /\ pool_close_calls = 0
    /\ current_token = None
    /\ current_page_content = NoPage
    /\ page_content_bound = FALSE
    /\ token_source = NoPage
    /\ core = CoreClient
    /\ cli = NoCli
    /\ assertions \in BOOLEAN

----------------------------------------------------------------------------
(* async_authenticate *)

\* The except clause of async_authenticate turns every exception into AuthResponse().
CallAuthenticate(t) ==
    /\ Startable(t)
    /\ LET r == [IdleTask EXCEPT !.op = "authenticate"]
       IN  IF CanRequest
           THEN Suspend(t, [r EXCEPT !.pc = "wait_post", !.post_reqs = 1])
           ELSE EndAtOnce(t, r, RequestError, "AuthResponse")
    /\ UnchangedTransport
    /\ UnchangedSession

AuthenticateResponse(t, o) ==
    /\ task[t].op = "authenticate"
    /\ task[t].pc = "wait_post"
    /\ IF HttpError(o) # None \/ ~StatusOk(o.status)
       THEN /\ Finish(t, o, HttpError(o), "AuthResponse", AuthResponseDefault)
            /\ UnchangedSession
       ELSE LET s == StoredSession(o.body)
            IN  /\ current_page_content' = s.page_content
                /\ page_content_bound' = TRUE
                /\ current_token' = s.token
                /\ token_source' = IF extract_web_token(o.body) = None
                                   THEN NoPage ELSE Some(o.body)
                /\ Finish(t, o, None, "AuthResponse",
                          AuthResult(s.token, s.page_content))
    /\ UnchangedTransport

----------------------------------------------------------------------------
(* async_is_alive *)

\* The except clause of async_is_alive turns every exception into False.
CallIsAlive(t) ==
    /\ Startable(t)
    /\ LET r == [IdleTask EXCEPT !.op = "is_alive"]
       IN  IF CanRequest
           THEN Suspend(t, [r EXCEPT !.pc = "wait_get", !.get_reqs = 1])
           ELSE EndAtOnce(t, r, RequestError, "False")
    /\ UnchangedTransport
    /\ UnchangedSession

IsAliveResponse(t, o) ==
    /\ task[t].op = "is_alive"
    /\ task[t].pc = "wait_get"
    /\ IF HttpError(o) # None
       THEN Finish(t, o, HttpError(o), "False", AuthResponseDefault)
       ELSE Finish(t, o, None, PyBool(IsAliveAccepted(o.status, o.body)),
                   AuthResponseDefault)
    /\ UnchangedTransport
    /\ UnchangedSession

----------------------------------------------------------------------------
(* async_update_available *)

\* The except clause of async_update_available turns every exception into False.
CallUpdateAvailable(t) ==
    /\ Startable(t)
    /\ LET r == [IdleTask EXCEPT !.op = "update_available"]
       IN  IF CanRequest
           THEN Suspend(t, [r EXCEPT !.pc = "wait_get", !.get_reqs = 1])
           ELSE EndAtOnce(t, r, RequestError, "False")
    /\ UnchangedTransport
    /\ UnchangedSession

UpdateAvailableResponse(t, o) ==
    /\ task[t].op = "update_available"
    /\ task[t].pc = "wait_get"
    /\ IF HttpError(o) # None
       THEN Finish(t, o, HttpError(o), "False", AuthResponseDefault)
       ELSE Finish(t, o, None, PyBool(UpdateAvailable(o.status, o.body)),
                   AuthResponseDefault)
    /\ UnchangedTransport
    /\ UnchangedSession

----------------------------------------------------------------------------
(* The properties udi and is_admin *)

\* Reading self.__current_page_content: __init__ does not assign it, the
\* class body only annotates it, so until async_authenticate has stored a
\* page the read raises AttributeError.
PageContentError == IF page_content_bound THEN None ELSE "AttributeError"

\* What the property udi evaluates to.
udi_value ==
    IF PageContentError # None THEN "Raised"
    ELSE IF current_page_content = NoPage THEN None
    ELSE udi_of(current_page_content[1])

\* What the property is_admin evaluates to.
is_admin_value ==
    IF PageContentError # None THEN "Raised"
    ELSE IF current_page_content = NoPage THEN None
    ELSE PyBool(is_admin_of(current_page_content[1]))

\* A caller reads client.udi.
ReadUdi(t) ==
    /\ Startable(t)
    /\ EndAtOnce(t, [IdleTask EXCEPT !.op = "udi"], PageContentError, udi_value)
    /\ UnchangedTransport
    /\ UnchangedSession

\* A caller reads client.is_admin.
ReadIsAdmin(t) ==
    /\ Startable(t)
    /\ EndAtOnce(t, [IdleTask EXCEPT !.op = "is_admin"], PageContentError, is_admin_value)
    /\ UnchangedTransport
    /\ UnchangedSession

----------------------------------------------------------------------------
(* get_doors, get_doors_from_page_content *)

\* A call that returns the door list of page_content, or raises error before
\* it has a page to read.
EndDoors(t, op, error, page_content) ==
    /\ task' = [task EXCEPT ![t] = IdleTask]
    /\ UNCHANGED << core, cli >>
    /\ last' = [NoLast EXCEPT
                  !.task = t,
                  !.frame = [IdleTask EXCEPT !.op = op, !.pc = "done"],
                  !.error = error,
                  !.result = IF error = None THEN "Doors" ELSE "Raised",
                  !.page = IF error = None THEN page_content ELSE NoPage,
                  !.doors = IF error = None
                            THEN get_doors_from_page_content(page_content[1])
                            ELSE << >>]
    /\ calls' = calls + 1

\* get_doors reads self.__current_page_content, which raises AttributeError
\* until a login has stored a page.
CallGetDoors(t) ==
    /\ Startable(t)
    /\ EndDoors(t, "get_doors", PageContentError, current_page_content)
    /\ UnchangedTransport
    /\ UnchangedSession

\* get_doors_from_page_content with a page its caller kept from an AuthResponse.
CallGetDoorsFromPageContent(t, page_content) ==
    /\ Startable(t)
    /\ EndDoors(t, "get_doors_from_page_content", None, Some(page_content))
    /\ UnchangedTransport
    /\ UnchangedSession

----------------------------------------------------------------------------
(* async_get_device_info *)

\* 'self.is_admin == False' ends the call with None; a property that raises
\* is caught by the except clause, which returns None as well; None == False
\* is false, and the request is sent.
CallGetDeviceInfo(t) ==
    /\ Startable(t)
    /\ LET r == [IdleTask EXCEPT !.op = "get_device_info"]
       IN  IF is_admin_value = "Raised"
           THEN EndAtOnce(t, r, PageContentError, None)
           ELSE IF is_admin_value = "False"
           THEN EndAtOnce(t, r, None, None)
           ELSE IF CanRequest
           THEN Suspend(t, [r EXCEPT !.pc = "wait_get", !.get_reqs = 1])
           ELSE EndAtOnce(t, r, RequestError, None)
    /\ UnchangedTransport
    /\ UnchangedSession

GetDeviceInfoResponse(t, o) ==
    /\ task[t].op = "get_device_info"
    /\ task[t].pc = "wait_get"
    /\ IF HttpError(o) # None
       THEN Finish(t, o, HttpError(o), None, AuthResponseDefault)
       ELSE IF HTTP_OK # o.status
       THEN Finish(t, o, None, None, AuthResponseDefault)
       ELSE /\ EndWith(t, task[t], o, None, "DeviceInfo",
                       AuthResponseDefault, Some(DeviceInfo(o.body)))
            /\ UNCHANGED calls
    /\ UnchangedTransport
    /\ UnchangedSession

----------------------------------------------------------------------------
(* async_get_door_status *)

\* No try statement: what HttpClient raises, the caller gets.
CallGetDoorStatus(t, door_id) ==
    /\ Startable(t)
    /\ LET r == [IdleTask EXCEPT !.op = "get_door_status", !.door = door_id]
       IN  IF CanRequest
           THEN Suspend(t, [r EXCEPT !.pc = "wait_status", !.status_reqs = 1])
           ELSE EndAtOnce(t, r, RequestError, "Raised")
    /\ UnchangedTransport
    /\ UnchangedSession

\* A status >= 400 that gets past async_get is logged, and the body is mapped all the same.
GetDoorStatusResponse(t, o) ==
    /\ task[t].op = "get_door_status"
    /\ task[t].pc = "wait_status"
    /\ IF HttpError(o) # None
       THEN Finish(t, o, HttpError(o), "Raised", AuthResponseDefault)
       ELSE Finish(t, o, None, door_status_types(o.body), AuthResponseDefault)
    /\ UnchangedTransport
    /\ UnchangedSession

----------------------------------------------------------------------------
(* async_wait_for_door_state *)

\* Mutant: the loop ends at the first status it gets.
StateReached_any(current, state) == TRUE

\* The loop condition, negated: DoorStatusType(state) == DoorStatusType(status).
StateReached(current, state) == current = state

\* Mutant: the timer of wait_for never cuts a sleep short.
BeforeDeadline_unbounded(at, timeout) == TRUE

\* asyncio.wait_for: the inner coroutine takes a step at second `at` only if
\* the timer has not cancelled it; a step due at the very second of the
\* deadline may run before the cancellation.
BeforeDeadline(at, timeout) == at <= timeout

\* The exception a status poll raises after a round trip of d seconds: a
\* request timeout (asyncio.TimeoutError after REQUEST_TIMEOUT), or what
\* HttpClient raises otherwise.
PollError(o, d) ==
    IF o.exc /\ d >= REQUEST_TIMEOUT THEN "TimeoutError" ELSE HttpError(o)

\* What async_wait_for_door_state makes of an exception leaving wait_for:
\* asyncio.TimeoutError is answered with False, anything else is raised.
WaitFailure(error) == IF error = "TimeoutError" THEN "False" ELSE "Raised"

\* The frame once a status request of the loop has left.
PollRequested(r) ==
    [r EXCEPT !.pc = "wait_status", !.status_reqs = @ + 1, !.polling = TRUE]

\* Mutant: the loop does not sleep, a status that is not the one waited for is
\* followed by the next status request at once.
SleepStarted_skipped(r) == PollRequested(r)

\* The body of the loop: the frame once asyncio.sleep(CHECK_DOOR_STATE_INTERVAL)
\* has been entered.
SleepStarted(r) == [r EXCEPT !.pc = "sleep", !.sleeps = @ + 1]

\* wait_for with a timeout <= 0 cancels the loop before it has run, and the
\* call returns False; otherwise the loop runs up to its first status request.
CallWaitForDoorState(t, door_id, state, timeout_in_seconds) ==
    /\ Startable(t)
    /\ LET r == [IdleTask EXCEPT !.op = "wait_for_door_state", !.door = door_id,
                                 !.state = state, !.timeout = timeout_in_seconds]
       IN  IF timeout_in_seconds <= 0
           THEN EndAtOnce(t, [r EXCEPT !.expired = TRUE], None, "False")
           ELSE IF CanRequest
           THEN Suspend(t, PollRequested(r))
           ELSE EndAtOnce(t, r, RequestError, WaitFailure(RequestError))
    /\ UnchangedTransport
    /\ UnchangedSession

\* A status poll of the loop comes back after d seconds, before the deadline:
\* the loop ends when the status is the one waited for, and sleeps otherwise.
WaitStatusResponse(t, o, d) ==
    /\ task[t].op = "wait_for_door_state"
    /\ task[t].pc = "wait_status"
    /\ BeforeDeadline(task[t].elapsed + d, task[t].timeout)
    /\ LET current == door_status_types(o.body)
           at == [task[t] EXCEPT !.elapsed = @ + d, !.polling = FALSE]
           r == [at EXCEPT !.hit = (current = task[t].state)]
       IN  IF PollError(o, d) # None
           THEN /\ End(t, at, o, PollError(o, d), WaitFailure(PollError(o, d)),
                       AuthResponseDefault)
                /\ UNCHANGED calls
           ELSE IF StateReached(current, task[t].state)
           THEN /\ End(t, r, o, None, "True", AuthResponseDefault)
                /\ UNCHANGED calls
           ELSE Continue(t, SleepStarted(r))
    /\ UnchangedTransport
    /\ UnchangedSession

\* asyncio.sleep(CHECK_DOOR_STATE_INTERVAL) is over before the deadline: the
\* loop sends its next status request.
WaitSleepDone(t) ==
    /\ task[t].op = "wait_for_door_state"
    /\ task[t].pc = "sleep"
    /\ BeforeDeadline(task[t].elapsed + CHECK_DOOR_STATE_INTERVAL, task[t].timeout)
    /\ LET r == [task[t] EXCEPT !.elapsed = @ + CHECK_DOOR_STATE_INTERVAL]
       IN  IF CanRequest
           THEN Continue(t, PollRequested(r))
           ELSE /\ End(t, r, NoResponse, RequestError, WaitFailure(RequestError),
                       AuthResponseDefault)
                /\ UNCHANGED calls
    /\ UnchangedTransport
    /\ UnchangedSession

\* Mutant: the deadline leaves a status request that is under way to come
\* back, and the call ends with what the loop makes of the response.
WaitTimeout_late(t) ==
    /\ task[t].op = "wait_for_door_state"
    /\ ~task[t].expired
    /\ \/ /\ task[t].pc = "wait_status"
          /\ Continue(t, [task[t] EXCEPT !.elapsed = task[t].timeout, !.expired = TRUE])
       \/ /\ task[t].pc = "sleep"
          /\ task[t].timeout <= task[t].elapsed + CHECK_DOOR_STATE_INTERVAL
          /\ End(t, [task[t] EXCEPT !.elapsed = task[t].timeout, !.expired = TRUE],
                 NoResponse, "TimeoutError", WaitFailure("TimeoutError"),
                 AuthResponseDefault)
          /\ UNCHANGED calls
    /\ UnchangedTransport
    /\ UnchangedSession

\* Mutant: the deadline cancels a sleep, never a status request under way.
WaitTimeout_sleep_only(t) ==
    /\ task[t].op = "wait_for_door_state"
    /\ task[t].pc = "sleep"
    /\ task[t].timeout <= task[t].elapsed + CHECK_DOOR_STATE_INTERVAL
    /\ End(t, [task[t] EXCEPT !.elapsed = task[t].timeout, !.expired = TRUE],
           NoResponse, "TimeoutError", WaitFailure("TimeoutError"), AuthResponseDefault)
    /\ UNCHANGED calls
    /\ UnchangedTransport
    /\ UnchangedSession

\* The deadline: the timer of wait_for cancels the loop where it is suspended,
\* in a status request or in a sleep that lasts up to the deadline, wait_for
\* raises asyncio.TimeoutError and the call returns False.
WaitTimeout(t) ==
    /\ task[t].op = "wait_for_door_state"
    /\ \/ task[t].pc = "wait_status"
          /\ task[t].timeout <= task[t].elapsed + REQUEST_TIMEOUT
       \/ task[t].pc = "sleep"
          /\ task[t].timeout <= task[t].elapsed + CHECK_DOOR_STATE_INTERVAL
    /\ End(t, [task[t] EXCEPT !.elapsed = task[t].timeout, !.expired = TRUE],
           NoResponse, "TimeoutError", WaitFailure("TimeoutError"), AuthResponseDefault)
    /\ UNCHANGED calls
    /\ UnchangedTransport
    /\ UnchangedSession

----------------------------------------------------------------------------
(* async_toogle_door_position *)

\* Mutant: the toggle request is sent a second time.
ToggleRequested_twice(r) ==
    [r EXCEPT !.pc = "wait_toggle", !.toggle_reqs = @ + 2,
              !.sent_token = IF r.token # None THEN r.token ELSE current_token]

\* The frame once the toggle request has left: the url carries web_token.
ToggleRequested(r) ==
    [r EXCEPT !.pc = "wait_toggle", !.toggle_reqs = @ + 1,
              !.sent_token = WebToken(r.token)]

CallToogleDoorPosition(t, door_id, token) ==
    /\ Startable(t)
    /\ LET r == [IdleTask EXCEPT !.op = "toogle_door_position",
                                 !.door = door_id, !.token = token]
       IN  IF CanRequest
           THEN Suspend(t, ToggleRequested(r))
           ELSE EndAtOnce(t, r, RequestError, "Raised")
    /\ UnchangedTransport
    /\ UnchangedSession

\* Ends async_toogle_door_position, called directly or from async_door_action.
ToggleResponse(t, o) ==
    /\ task[t].op \in {"toogle_door_position", "door_action"}
    /\ task[t].pc = "wait_toggle"
    /\ IF HttpError(o) # None
       THEN Finish(t, o, HttpError(o), "Raised", AuthResponseDefault)
       ELSE Finish(t, o, None, PyBool(ToggleAccepted(o.status, o.body)),
                   AuthResponseDefault)
    /\ UnchangedTransport
    /\ UnchangedSession

----------------------------------------------------------------------------
(* async_door_action, async_open_door, async_close_door *)

\* Mutant: a door of unknown status counts as in position.
AlreadyInPosition_or_unknown(current_door_status, requested_door_status) ==
    current_door_status = requested_door_status \/ current_door_status = "UNKNOWN"

\* Mutant: the toggle is sent whatever the probe says.
AlreadyInPosition_never(current_door_status, requested_door_status) == FALSE

\* current_door_status == requested_door_status
AlreadyInPosition(current_door_status, requested_door_status) ==
    current_door_status = requested_door_status

CallDoorAction(t, door_id, door_action, token) ==
    /\ Startable(t)
    /\ LET r == [IdleTask EXCEPT !.op = "door_action", !.door = door_id,
                                 !.action = door_action, !.token = token,
                                 !.start_token = current_token,
                                 !.prev_toggles = PrevToggles(t, door_id, door_action)]
       IN  IF CanRequest
           THEN Suspend(t, [r EXCEPT !.pc = "wait_status", !.status_reqs = 1])
           ELSE EndAtOnce(t, r, RequestError, "Raised")
    /\ UnchangedTransport
    /\ UnchangedSession

CallOpenDoor(t, door_id, token) == CallDoorAction(t, door_id, "OPEN", token)

CallCloseDoor(t, door_id, token) == CallDoorAction(t, door_id, "CLOSE", token)

\* The status probe of async_door_action comes back; nothing suspends between
\* the comparison and the toggle request.
DoorActionStatusResponse(t, o) ==
    /\ task[t].op = "door_action"
    /\ task[t].pc = "wait_status"
    /\ LET current_door_status == door_status_types(o.body)
           requested_door_status == door_action_to_status_switcher(task[t].action)
           r == [task[t] EXCEPT !.probe = current_door_status]
       IN  IF HttpError(o) # None
           THEN Finish(t, o, HttpError(o), "Raised", AuthResponseDefault)
           ELSE IF AlreadyInPosition(current_door_status, requested_door_status)
           THEN /\ End(t, r, o, None, "True", AuthResponseDefault)
                /\ UNCHANGED calls
           ELSE IF CanRequest
           THEN Continue(t, ToggleRequested(r))
           ELSE /\ End(t, r, NoResponse, RequestError, "Raised", AuthResponseDefault)
                /\ UNCHANGED calls
    /\ UnchangedTransport
    /\ UnchangedSession

----------------------------------------------------------------------------
(* somweb/core.py: the synchronous client.  Its methods block on requests,  *)
(* so each call is one step.                                                *)

\* The pages the device answers a login of this client with.
CorePages ==
    LoginPages \cup { << DoorInput(6, "Door6"), NL, WebTokenInput("TOK456") >> }

CoreOutcomes == Outcomes(CorePages, << >>)

\* The text of a door id, which core.Door keeps as the pattern captured it.
IdText(id) ==
    CASE id = 2 -> "2"
      [] id = 4 -> "4"
      [] id = 6 -> "6"
      [] OTHER  -> "0"

\* list(map(lambda m: Door(m.group("id"), m.group("name")), RE_DOORS.finditer(...)))
CoreDoorsOfPage(page_content) ==
    LET found == SelectSeq(page_content, IsDoorElement)
    IN  [k \in 1..Len(found) |-> Door(IdText(found[k].id), found[k].value)]

\* "not self.__doors": no list yet, or an empty one.
CoreNoDoors == core.doors = << >> \/ core.doors[1] = << >>

CoreStartable == core.calls < MaxCoreCalls

\* The return of a call on the client of core.py.
CoreReturn(op, error, result, page_content, doors) ==
    /\ last' = [NoLast EXCEPT
                  !.frame = [IdleTask EXCEPT !.op = op, !.pc = "done"],
                  !.error = error,
                  !.result = result,
                  !.page = page_content,
                  !.doors = doors]
    /\ UNCHANGED << task, calls, cli >>
    /\ UnchangedTransport
    /\ UnchangedSession

\* core.SomwebClient.authenticate: no exception of requests is caught; a
\* response that is not ok changes nothing; any other page is stored with the
\* token extracted from it, and the door list is left as it is.
CoreAuthenticate(o) ==
    /\ CoreStartable
    /\ IF o.exc
       THEN /\ core' = [core EXCEPT !.calls = @ + 1]
            /\ CoreReturn("core.authenticate", "RequestException", "Raised", NoPage, << >>)
       ELSE IF ~(o.status < HTTP_ERROR_LIMIT)
       THEN /\ core' = [core EXCEPT !.calls = @ + 1]
            /\ CoreReturn("core.authenticate", None, "False", NoPage, << >>)
       ELSE /\ core' = [core EXCEPT !.calls = @ + 1,
                                    !.somWebPageContent = Some(o.body),
                                    !.currentToken = extract_web_token(o.body)]
            /\ CoreReturn("core.authenticate", None,
                          PyBool(extract_web_token(o.body) # None), Some(o.body), << >>)

\* core.SomwebClient.getDoors: the list is extracted when the client holds
\* none, which raises TypeError while it holds no page, and kept.
CoreGetDoors ==
    /\ CoreStartable
    /\ IF ~CoreNoDoors
       THEN /\ core' = [core EXCEPT !.calls = @ + 1]
            /\ CoreReturn("core.getDoors", None, "Doors", core.somWebPageContent,
                          core.doors[1])
       ELSE IF core.somWebPageContent = NoPage
       THEN /\ core' = [core EXCEPT !.calls = @ + 1]
            /\ CoreReturn("core.getDoors", "TypeError", "Raised", NoPage, << >>)
       ELSE /\ core' = [core EXCEPT
                          !.calls = @ + 1,
                          !.doors = Some(CoreDoorsOfPage(core.somWebPageContent[1]))]
            /\ CoreReturn("core.getDoors", None, "Doors", core.somWebPageContent,
                          CoreDoorsOfPage(core.somWebPageContent[1]))

----------------------------------------------------------------------------
(* close, __aexit__; HttpClient.async_close *)

\* Mutant: async_close closes the pool whoever created it.
AsyncCloseStart_any_pool(t, r, clear_client) ==
    IF HttpClientClosed
    THEN /\ http_client' = IF clear_client THEN None ELSE http_client
         /\ EndAtOnce(t, r, None, None)
         /\ UNCHANGED << session, pool_closed, pool_close_calls >>
    ELSE /\ pool_closed' = TRUE
         /\ pool_close_calls' = pool_close_calls + 1
         /\ Suspend(t, [r EXCEPT !.pc = "wait_close"])
         /\ UNCHANGED << session, http_client >>

\* HttpClient.async_close up to its suspension: a pool the client created is
\* closed (the coroutine suspends in ClientSession.close()), a borrowed pool
\* is only forgotten.
AsyncCloseStart(t, r, clear_client) ==
    IF HttpClientClosed
    THEN /\ http_client' = IF clear_client THEN None ELSE http_client
         /\ EndAtOnce(t, r, None, None)
         /\ UNCHANGED << session, pool_closed, pool_close_calls >>
    ELSE IF private_session
         THEN /\ pool_closed' = TRUE
              /\ pool_close_calls' = pool_close_calls + 1
              /\ Suspend(t, [r EXCEPT !.pc = "wait_close"])
              /\ UNCHANGED << session, http_client >>
         ELSE /\ session' = None
              /\ http_client' = IF clear_client THEN None ELSE http_client
              /\ EndAtOnce(t, r, None, None)
              /\ UNCHANGED << pool_closed, pool_close_calls >>

\* SomwebClient.close
CallClose(t) ==
    /\ Startable(t)
    /\ LET r == [IdleTask EXCEPT !.op = "close"]
       IN  IF closed
           THEN /\ EndAtOnce(t, r, None, None)
                /\ UNCHANGED << http_client, session, pool_closed, pool_close_calls >>
           ELSE AsyncCloseStart(t, r, TRUE)
    /\ UNCHANGED << private_session, assertions >>
    /\ UnchangedSession

\* SomwebClient.__aexit__
CallAExit(t) ==
    /\ Startable(t)
    /\ LET r == [IdleTask EXCEPT !.op = "aexit"]
       IN  IF http_client = None
           THEN /\ EndAtOnce(t, r, "AttributeError", "Raised")
                /\ UNCHANGED << http_client, session, pool_closed, pool_close_calls >>
           ELSE AsyncCloseStart(t, r, FALSE)
    /\ UNCHANGED << private_session, assertions >>
    /\ UnchangedSession

\* ClientSession.close() has completed: self.__session = None, and close()
\* goes on to self.__http_client = None.
CloseResume(t) ==
    /\ task[t].op \in {"close", "aexit"}
    /\ task[t].pc = "wait_close"
    /\ session' = None
    /\ http_client' = IF task[t].op = "close" THEN None ELSE http_client
    /\ Finish(t, NoResponse, None, None, AuthResponseDefault)
    /\ UNCHANGED << private_session, pool_closed, pool_close_calls, assertions >>
    /\ UnchangedSession

----------------------------------------------------------------------------

\* The token argument of toggle and the door actions: left out, or given.
TokenArgs == {None, "token1"}

Next ==
    \/ \E t \in Tasks : CallAuthenticate(t)
    \/ \E t \in Tasks : \E o \in LoginOutcomes : AuthenticateResponse(t, o)
    \/ \E t \in Tasks : \E d \in Doors : CallGetDoorStatus(t, d)
    \/ \E t \in Tasks : \E o \in TextOutcomes : GetDoorStatusResponse(t, o)
    \/ \E t \in Tasks : \E d \in Doors : \E k \in TokenArgs : CallToogleDoorPosition(t, d, k)
    \/ \E t \in Tasks : \E o \in TextOutcomes : ToggleResponse(t, o)
    \/ \E t \in Tasks : \E d \in Doors : \E a \in DoorActionType : \E k \in TokenArgs :
          CallDoorAction(t, d, a, k)
    \/ \E t \in Tasks : \E d \in Doors : \E k \in TokenArgs : CallOpenDoor(t, d, k)
    \/ \E t \in Tasks : \E d \in Doors : \E k \in TokenArgs : CallCloseDoor(t, d, k)
    \/ \E t \in Tasks : \E o \in TextOutcomes : DoorActionStatusResponse(t, o)
    \/ \E t \in Tasks : CallClose(t)
    \/ \E t \in Tasks : CallAExit(t)
    \/ \E t \in Tasks : CloseResume(t)

Spec == Init /\ [][Next]_vars

\* The client used for what it tells of the device and of the session:
\* login, the two properties, the door list, and teardown.
NextInfo ==
    \/ \E t \in Tasks : CallAuthenticate(t)
    \/ \E t \in Tasks : \E o \in LoginOutcomes : AuthenticateResponse(t, o)
    \/ \E t \in Tasks : CallIsAlive(t)
    \/ \E t \in Tasks : \E o \in FlagOutcomes : IsAliveResponse(t, o)
    \/ \E t \in Tasks : CallUpdateAvailable(t)
    \/ \E t \in Tasks : \E o \in FlagOutcomes : UpdateAvailableResponse(t, o)
    \/ \E t \in Tasks : CallGetDeviceInfo(t)
    \/ \E t \in Tasks : \E o \in InfoOutcomes : GetDeviceInfoResponse(t, o)
    \/ \E t \in Tasks : ReadUdi(t)
    \/ \E t \in Tasks : ReadIsAdmin(t)
    \/ \E t \in Tasks : CallGetDoors(t)
    \/ \E t \in Tasks : \E p \in LoginPages : CallGetDoorsFromPageContent(t, p)
    \/ \E t \in Tasks : CallClose(t)
    \/ \E t \in Tasks : CallAExit(t)
    \/ \E t \in Tasks : CloseResume(t)

SpecInfo == Init /\ [][NextInfo]_vars

\* The timeouts a caller waits with, the seconds a round trip takes, and the
\* door waited for.
Timeouts == {0, MaxTimeout}
Delays == 0..MaxDelay
WaitDoors == {SetMin(Doors)}

\* The client used to wait for a door, with a status read and teardown beside it.
NextWait ==
    \/ \E t \in Tasks : \E d \in WaitDoors : \E s \in DoorStatusType : \E n \in Timeouts :
          CallWaitForDoorState(t, d, s, n)
    \/ \E t \in Tasks : \E o \in TextOutcomes : \E d \in Delays : WaitStatusResponse(t, o, d)
    \/ \E t \in Tasks : WaitSleepDone(t)
    \/ \E t \in Tasks : WaitTimeout(t)
    \/ \E t \in Tasks : CallClose(t)
    \/ \E t \in Tasks : CallAExit(t)
    \/ \E t \in Tasks : CloseResume(t)

SpecWait == Init /\ [][NextWait]_vars

\* The clock of the event loop is fair: a timer that is due fires, be it the
\* deadline of wait_for or the end of a sleep.
FairClock ==
    \A t \in Tasks : WF_vars(WaitTimeout(t)) /\ WF_vars(WaitSleepDone(t))

SpecWaitFair == SpecWait /\ FairClock

\* Every operation of the client.
NextAll ==
    \/ \E t \in Tasks : CallIsAlive(t)
    \/ \E t \in Tasks : \E o \in FlagOutcomes : IsAliveResponse(t, o)
    \/ \E t \in Tasks : CallAuthenticate(t)
    \/ \E t \in Tasks : \E o \in LoginOutcomes : AuthenticateResponse(t, o)
    \/ \E t \in Tasks : ReadUdi(t)
    \/ \E t \in Tasks : ReadIsAdmin(t)
    \/ \E t \in Tasks : \E d \in WaitDoors : CallGetDoorStatus(t, d)
    \/ \E t \in Tasks : \E o \in TextOutcomes : GetDoorStatusResponse(t, o)
    \/ \E t \in Tasks : \E d \in WaitDoors : \E s \in DoorStatusType : \E n \in Timeouts :
          CallWaitForDoorState(t, d, s, n)
    \/ \E t \in Tasks : \E o \in TextOutcomes : \E d \in Delays : WaitStatusResponse(t, o, d)
    \/ \E t \in Tasks : WaitSleepDone(t)
    \/ \E t \in Tasks : WaitTimeout(t)
    \/ \E t \in Tasks : \E d \in WaitDoors : \E a \in DoorActionType : \E k \in TokenArgs :
          CallDoorAction(t, d, a, k)
    \/ \E t \in Tasks : \E o \in TextOutcomes : DoorActionStatusResponse(t, o)
    \/ \E t \in Tasks : \E d \in WaitDoors : \E k \in TokenArgs : CallToogleDoorPosition(t, d, k)
    \/ \E t \in Tasks : \E o \in TextOutcomes : ToggleResponse(t, o)
    \/ \E t \in Tasks : CallUpdateAvailable(t)
    \/ \E t \in Tasks : \E o \in FlagOutcomes : UpdateAvailableResponse(t, o)
    \/ \E t \in Tasks : CallGetDeviceInfo(t)
    \/ \E t \in Tasks : \E o \in InfoOutcomes : GetDeviceInfoResponse(t, o)
    \/ \E t \in Tasks : CallClose(t)
    \/ \E t \in Tasks : CallAExit(t)
    \/ \E t \in Tasks : CloseResume(t)

SpecAll == Init /\ [][NextAll]_vars

\* A value of the decoded JSON object: Python tells the string "0" from the
\* integer 0, so a value keeps its type beside its text.
JsonStr(text) == [type |-> "str", text |-> text]
JsonInt(text) == [type |-> "int", text |-> text]

\* What statusDoorAll.php is answered with: text that is no JSON, or a JSON
\* object, here the function from its keys to its values.
NoJson == [json |-> FALSE, data |-> << >>]
Json(data) == [json |-> TRUE, data |-> data]
CoreStatusBodies ==
    { Json([k \in {"2", "4", "6", "11"} |->
              CASE k = "2" -> JsonStr("0")
                [] k = "4" -> JsonInt("1")
                [] k = "6" -> JsonInt("1")
                [] OTHER   -> JsonStr("token2")]),
      Json([k \in {"2", "4", "6", "11"} |->
              CASE k = "2" -> JsonInt("0")
                [] k = "4" -> JsonStr("1")
                [] k = "6" -> JsonStr("0")
                [] OTHER   -> JsonStr("token3")]),
      Json([k \in {"2", "4", "6"} |-> JsonStr("0")]),
      Json([k \in {"2", "11"} |->
              CASE k = "2" -> JsonInt("1")
                [] OTHER   -> JsonStr("token2")]),
      NoJson }

CoreStatusOutcomes == Outcomes(CoreStatusBodies, NoJson)

\* Mutant: a zero is a closed door, and a one an open door, of either type.
door_state_switcher_untyped(value) ==
    CASE value.text = "0" -> "Closed"
      [] value.text = "1" -> "Open"
      [] OTHER            -> "Unknown"

\* door_state_switcher.get(data[id], DoorStatusType.Unknown)
door_state_switcher(value) ==
    CASE value = JsonStr("0") -> "Closed"
      [] value = JsonInt("1") -> "Open"
      [] OTHER                -> "Unknown"

\* core.DoorStatus
DoorStatus(id, status) == [id |-> id, status |-> status]

\* The return of getAllDoorStatuses: the token the request carried and the
\* decoded response are kept beside the list returned.
CoreStatusReturn(o, error, result, statuses) ==
    /\ last' = [NoLast EXCEPT
                  !.frame = [IdleTask EXCEPT !.op = "core.getAllDoorStatuses",
                                             !.pc = "done",
                                             !.sent_token = core.currentToken,
                                             !.get_reqs = 1],
                  !.error = error,
                  !.rstatus = o.status,
                  !.rbody = o.body,
                  !.result = result,
                  !.page = core.somWebPageContent,
                  !.doors = statuses]
    /\ UNCHANGED << task, calls, cli >>
    /\ UnchangedTransport
    /\ UnchangedSession

\* core.SomwebClient.getAllDoorStatuses: the ids come from getDoors, which
\* keeps the list; the response is decoded whatever its status; the token is
\* replaced before the statuses are looked up, so a response without the key
\* of a known door raises KeyError with the token replaced.
CoreGetAllDoorStatuses(o) ==
    /\ CoreStartable
    /\ IF CoreNoDoors /\ core.somWebPageContent = NoPage
       THEN /\ core' = [core EXCEPT !.calls = @ + 1]
            /\ CoreReturn("core.getAllDoorStatuses", "TypeError", "Raised", NoPage, << >>)
       ELSE LET doors == IF CoreNoDoors
                         THEN CoreDoorsOfPage(core.somWebPageContent[1])
                         ELSE core.doors[1]
                kept == [core EXCEPT !.calls = @ + 1, !.doors = Some(doors)]
                data == o.body.data
            IN  IF o.exc
                THEN /\ core' = kept
                     /\ CoreStatusReturn(o, "RequestException", "Raised", << >>)
                ELSE IF ~o.body.json
                THEN /\ core' = kept
                     /\ CoreStatusReturn(o, "JSONDecodeError", "Raised", << >>)
                ELSE IF "11" \notin DOMAIN data
                THEN /\ core' = kept
                     /\ CoreStatusReturn(o, "KeyError", "Raised", << >>)
                ELSE IF \E k \in 1..Len(doors) : doors[k].id \notin DOMAIN data
                THEN /\ core' = [kept EXCEPT !.currentToken = data["11"].text]
                     /\ CoreStatusReturn(o, "KeyError", "Raised", << >>)
                ELSE /\ core' = [kept EXCEPT !.currentToken = data["11"].text]
                     /\ CoreStatusReturn(o, None, "Statuses",
                            [k \in 1..Len(doors) |->
                                DoorStatus(doors[k].id, door_state_switcher(data[doors[k].id]))])

\* core.DoorActionType, and core.SomwebClient.__door_status_types.get(text, Unknown)
CoreDoorActionType == {"Close", "Open"}
core_door_status_types(text) ==
    CASE text = "OK"   -> "Closed"
      [] text = "FAIL" -> "Open"
      [] OTHER         -> "Unknown"

\* door_action_to_status_switcher.get(doorAction) of core.doorAction
core_door_action_to_status_switcher(doorAction) ==
    CASE doorAction = "Close" -> "Closed"
      [] doorAction = "Open"  -> "Open"
      [] OTHER                -> None

\* The return of doorAction: the requests it sent, what the probe gave, and
\* the response it got last.
CoreActionReturn(doorId, doorAction, probe, toggles, o, error, result) ==
    /\ last' = [NoLast EXCEPT
                  !.frame = [IdleTask EXCEPT !.op = "core.doorAction", !.pc = "done",
                                             !.door = doorId, !.action = doorAction,
                                             !.probe = probe,
                                             !.status_reqs = 1,
                                             !.toggle_reqs = toggles,
                                             !.sent_token = IF toggles = 0 THEN None
                                                            ELSE core.currentToken],
                  !.error = error,
                  !.rstatus = o.status,
                  !.rbody = o.body,
                  !.result = result]
    /\ core' = [core EXCEPT !.calls = @ + 1]
    /\ UNCHANGED << task, calls, cli >>
    /\ UnchangedTransport
    /\ UnchangedSession

\* core.SomwebClient.doorAction: "getDoorStatus(doorId) == requestedDoorStatus
\* or toogleDoorPosition(doorId)".  getDoorStatus logs a response that is not
\* ok and maps its text all the same; toogleDoorPosition wants an ok response
\* with the text OK; an exception of requests is caught by neither.
CoreDoorAction(doorId, doorAction, probed, toggled) ==
    /\ CoreStartable
    /\ LET status == core_door_status_types(probed.body)
           requestedDoorStatus == core_door_action_to_status_switcher(doorAction)
       IN  IF probed.exc
           THEN CoreActionReturn(doorId, doorAction, None, 0, probed,
                                 "RequestException", "Raised")
           ELSE IF status = requestedDoorStatus
           THEN CoreActionReturn(doorId, doorAction, status, 0, probed, None, "True")
           ELSE IF toggled.exc
           THEN CoreActionReturn(doorId, doorAction, status, 1, toggled,
                                 "RequestException", "Raised")
           ELSE CoreActionReturn(doorId, doorAction, status, 1, toggled, None,
                                 PyBool(toggled.status < HTTP_ERROR_LIMIT
                                            /\ "OK" = toggled.body))

\* The client of somweb/core.py.
NextCore ==
    \/ \E o \in CoreOutcomes : CoreAuthenticate(o)
    \/ CoreGetDoors
    \/ \E o \in CoreStatusOutcomes : CoreGetAllDoorStatuses(o)

SpecCore == Init /\ [][NextCore]_vars

\* One door action of the client of core.py, which keeps nothing of it.
CoreOneDoorAction(doorId, doorAction, probed, toggled) ==
    /\ core.calls = 0
    /\ CoreDoorAction(doorId, doorAction, probed, toggled)

\* The door actions of both clients, with a teardown of the asynchronous one
\* beside them.
NextDoorAction ==
    \/ \E t \in Tasks : \E d \in WaitDoors : \E a \in DoorActionType : \E k \in TokenArgs :
          CallDoorAction(t, d, a, k)
    \/ \E t \in Tasks : \E o \in TextOutcomes : DoorActionStatusResponse(t, o)
    \/ \E t \in Tasks : \E o \in TextOutcomes : ToggleResponse(t, o)
    \/ \E t \in Tasks : CallClose(t)
    \/ \E t \in Tasks : CloseResume(t)
    \/ \E d \in WaitDoors : \E a \in CoreDoorActionType : \E o, p \in TextOutcomes :
          CoreOneDoorAction(d, a, o, p)

SpecDoorAction == Init /\ [][NextDoorAction]_vars

----------------------------------------------------------------------------
(* main.py: execute() runs one action on a client of its own, inside       *)
(* "async with somweb_client", in one coroutine.                           *)

\* The per-door actions of the command line, and the coroutine running it.
CliActions == {"status", "open", "close", "toggle"}
CliTask == "t1"

\* The timeout async_wait_for_door_state gets when main.py names none.
DEFAULT_DOOR_STATE_CHANGE_TIMEOUT == 60

\* The seconds a round trip takes for main.py: up to the request timeout.
CliDelays == Delays \cup {REQUEST_TIMEOUT}

\* Mutant: the action goes on whatever the login returned.
CliAuthenticated_any == last.frame.op = "authenticate"

\* "auth = await client.async_authenticate()" has returned and "if auth.success:" holds.
CliAuthenticated == last.frame.op = "authenticate" /\ last.auth.success

\* execute(): the client is constructed without a session, so its HttpClient
\* creates the pool, and __aenter__ returns it.
CliExecute(a, door_id) ==
    /\ cli.pc = "off"
    /\ calls = 0
    /\ private_session
    /\ cli' = [pc |-> "func", action |-> a, door |-> door_id, printed |-> None]
    /\ UNCHANGED << task, last, calls, core >>
    /\ UnchangedTransport
    /\ UnchangedSession

\* Every action starts with a login.
CliAuthenticate ==
    /\ cli.pc = "func"
    /\ calls = 0
    /\ CallAuthenticate(CliTask)

\* door_status
CliDoorStatus ==
    /\ cli.pc = "func"
    /\ cli.action = "status"
    /\ CliAuthenticated
    /\ CallGetDoorStatus(CliTask, cli.door)

\* door_toggle
CliDoorToggle ==
    /\ cli.pc = "func"
    /\ cli.action = "toggle"
    /\ CliAuthenticated
    /\ CallToogleDoorPosition(CliTask, cli.door, None)

\* door_open, up to "await client.async_open_door(door_id)"
CliDoorOpen ==
    /\ cli.pc = "func"
    /\ cli.action = "open"
    /\ CliAuthenticated
    /\ CallOpenDoor(CliTask, cli.door, None)

\* door_close, up to "await client.async_close_door(door_id)"
CliDoorClose ==
    /\ cli.pc = "func"
    /\ cli.action = "close"
    /\ CliAuthenticated
    /\ CallCloseDoor(CliTask, cli.door, None)

\* door_open and door_close go on to wait for the door when the door action
\* returned true.
CliWait ==
    /\ cli.pc = "func"
    /\ last.frame.op = "door_action"
    /\ last.result = "True"
    /\ CallWaitForDoorState(CliTask, cli.door,
                            IF cli.action = "open" THEN "OPEN" ELSE "CLOSED",
                            DEFAULT_DOOR_STATE_CHANGE_TIMEOUT)

\* The action has returned or raised: the login failed, the door action was
\* not true, or the last call of the action has ended.
CliReturned ==
    /\ last.task = CliTask
    /\ \/ last.frame.op = "authenticate" /\ ~last.auth.success
       \/ last.frame.op \in {"get_door_status", "toogle_door_position",
                              "wait_for_door_state"}
       \/ last.frame.op = "door_action" /\ last.result # "True"

\* What "print(await func(...))" prints; nothing when the action raised.
CliPrinted ==
    IF last.frame.op = "authenticate" THEN "Authentication failed"
    ELSE IF last.result = "Raised" THEN None
    ELSE last.result

\* The body of "async with" is left, by the print or by an exception.
CliFuncEnd ==
    /\ cli.pc = "func"
    /\ CliReturned
    /\ cli' = [cli EXCEPT !.pc = "exit", !.printed = CliPrinted]
    /\ last' = NoLast
    /\ UNCHANGED << task, calls, core >>
    /\ UnchangedTransport
    /\ UnchangedSession

\* A status poll of the wait comes back, or runs into the request timeout.
CliWaitStatusResponse(o, d) ==
    /\ d = REQUEST_TIMEOUT => o.exc
    /\ WaitStatusResponse(CliTask, o, d)

\* "async with" calls __aexit__, once.
CliExit ==
    /\ cli.pc = "exit"
    /\ last.frame.op # "aexit"
    /\ CallAExit(CliTask)

NextCli ==
    \/ \E a \in CliActions : \E d \in Doors : CliExecute(a, d)
    \/ CliAuthenticate
    \/ \E o \in LoginOutcomes : AuthenticateResponse(CliTask, o)
    \/ CliDoorStatus
    \/ \E o \in TextOutcomes : GetDoorStatusResponse(CliTask, o)
    \/ CliDoorToggle
    \/ \E o \in TextOutcomes : ToggleResponse(CliTask, o)
    \/ CliDoorOpen
    \/ CliDoorClose
    \/ \E o \in TextOutcomes : DoorActionStatusResponse(CliTask, o)
    \/ CliWait
    \/ \E o \in TextOutcomes : \E d \in CliDelays : CliWaitStatusResponse(o, d)
    \/ WaitSleepDone(CliTask)
    \/ WaitTimeout(CliTask)
    \/ CliFuncEnd
    \/ CliExit
    \/ CloseResume(CliTask)

SpecCli == Init /\ [][NextCli]_vars

----------------------------------------------------------------------------
(* The deprecated aliases: @deprecated warns and calls the function, whose  *)
(* body awaits the async_ method with the arguments it was given.           *)

\* A call of an alias: its name and its arguments.
AliasCall(name, door_id, action, state, timeout_in_seconds, token) ==
    [name |-> name, door |-> door_id, action |-> action, state |-> state,
     timeout |-> timeout_in_seconds, token |-> token]

\* The coroutine that calls aliases.
AliasTasks == {CliTask}

\* The calls of the aliases that callers make.
AliasCalls ==
    { AliasCall(n, 0, None, None, 0, None) : n \in {"is_alive", "authenticate"} }
    \cup { AliasCall("get_door_status", d, None, None, 0, None) : d \in WaitDoors }
    \cup { AliasCall("wait_for_door_state", d, None, s, n, None) :
              d \in WaitDoors, s \in DoorStatusType, n \in Timeouts }
    \cup { AliasCall(n, d, None, None, 0, k) :
              n \in {"open_door", "close_door", "toogle_door_position"},
              d \in WaitDoors, k \in TokenArgs }
    \cup { AliasCall("door_action", d, a, None, 0, k) :
              d \in WaitDoors, a \in DoorActionType, k \in TokenArgs }

\* deprecated.wrapper: the warning is issued and the coroutine of the alias is
\* created; nothing of the client is touched.
deprecated(t, call) ==
    /\ Startable(t)
    /\ task[t].alias = NoAlias
    /\ task' = [task EXCEPT ![t] = [IdleTask EXCEPT !.alias = call]]
    /\ last' = NoLast
    /\ UNCHANGED << calls, core, cli >>
    /\ UnchangedTransport
    /\ UnchangedSession

\* The body of an alias runs.
AliasPending(t, name) == task[t].alias.name = name

AliasIsAlive(t) == AliasPending(t, "is_alive") /\ CallIsAlive(t)

AliasAuthenticate(t) == AliasPending(t, "authenticate") /\ CallAuthenticate(t)

AliasGetDoorStatus(t) ==
    /\ AliasPending(t, "get_door_status")
    /\ CallGetDoorStatus(t, task[t].alias.door)

AliasWaitForDoorState(t) ==
    /\ AliasPending(t, "wait_for_door_state")
    /\ CallWaitForDoorState(t, task[t].alias.door, task[t].alias.state,
                            task[t].alias.timeout)

\* Mutant: the alias leaves the token out.
AliasOpenDoor_no_token(t) ==
    /\ AliasPending(t, "open_door")
    /\ CallOpenDoor(t, task[t].alias.door, None)

AliasOpenDoor(t) ==
    /\ AliasPending(t, "open_door")
    /\ CallOpenDoor(t, task[t].alias.door, task[t].alias.token)

AliasCloseDoor(t) ==
    /\ AliasPending(t, "close_door")
    /\ CallCloseDoor(t, task[t].alias.door, task[t].alias.token)

AliasDoorAction(t) ==
    /\ AliasPending(t, "door_action")
    /\ CallDoorAction(t, task[t].alias.door, task[t].alias.action, task[t].alias.token)

AliasToogleDoorPosition(t) ==
    /\ AliasPending(t, "toogle_door_position")
    /\ CallToogleDoorPosition(t, task[t].alias.door, task[t].alias.token)

\* The client called through its deprecated aliases, by one coroutine.
NextAlias ==
    \/ \E t \in AliasTasks : \E call \in AliasCalls : deprecated(t, call)
    \/ \E t \in AliasTasks : AliasIsAlive(t)
    \/ \E t \in AliasTasks : \E o \in FlagOutcomes : IsAliveResponse(t, o)
    \/ \E t \in AliasTasks : AliasAuthenticate(t)
    \/ \E t \in AliasTasks : \E o \in LoginOutcomes : AuthenticateResponse(t, o)
    \/ \E t \in AliasTasks : AliasGetDoorStatus(t)
    \/ \E t \in AliasTasks : \E o \in TextOutcomes : GetDoorStatusResponse(t, o)
    \/ \E t \in AliasTasks : AliasWaitForDoorState(t)
    \/ \E t \in AliasTasks : \E o \in TextOutcomes : \E d \in Delays : WaitStatusResponse(t, o, d)
    \/ \E t \in AliasTasks : WaitSleepDone(t)
    \/ \E t \in AliasTasks : WaitTimeout(t)
    \/ \E t \in AliasTasks : AliasOpenDoor(t)
    \/ \E t \in AliasTasks : AliasCloseDoor(t)
    \/ \E t \in AliasTasks : AliasDoorAction(t)
    \/ \E t \in AliasTasks : \E o \in TextOutcomes : DoorActionStatusResponse(t, o)
    \/ \E t \in AliasTasks : AliasToogleDoorPosition(t)
    \/ \E t \in AliasTasks : \E o \in TextOutcomes : ToggleResponse(t, o)

SpecAlias == Init /\ [][NextAlias]_vars


----------------------------------------------------------------------------
(* Claims.  A claim about a call is stated on the return the call delivers  *)
(* (last), in the state the call ends in.  "The response" of a request is  *)
(* what HttpClient returned for it; a round trip that raises inside        *)
(* HttpClient is a transport failure and has no response.                  *)

\* The status a door action targets, spelled out.
Targets(door_action, status) ==
    \/ door_action = "OPEN" /\ status = "OPEN"
    \/ door_action = "CLOSE" /\ status = "CLOSED"

\* The call that ended in this state is a door action whose probe returned status.
DoorActionProbed == last.frame.op = "door_action" /\ last.frame.probe # None

\* The values of the webtoken input elements of a page.
WebTokenValues(page) ==
    { page[i].value : i \in { j \in 1..Len(page) : page[j].kind = "webtoken" } }

\* The call that ended in this state is an authenticate that got a response
\* with a success status.
AuthenticateAnswered ==
    /\ last.frame.op = "authenticate"
    /\ last.error = None
    /\ last.rpage # NoPage
    /\ last.rstatus < 400

\* C1: a door action whose status probe returns the status the action targets
\* returns true, after exactly one status request and no toggle request.
C1_NoToggleWhenInPosition ==
    (DoorActionProbed /\ Targets(last.frame.action, last.frame.probe))
        => /\ last.result = "True"
           /\ last.frame.status_reqs = 1
           /\ last.frame.toggle_reqs = 0

C1_Witness ==
    /\ DoorActionProbed
    /\ last.frame.action = "OPEN" /\ last.frame.probe = "OPEN"
    /\ last.result = "True"

\* C2: two door actions OPEN on the same door, made one immediately after the
\* other by one caller, send at most one toggle request in all when the probe
\* of the second returns OPEN.
C2_AtMostOneToggleInTwoOpens ==
    (/\ DoorActionProbed
     /\ last.frame.action = "OPEN" /\ last.frame.probe = "OPEN"
     /\ last.frame.prev_toggles >= 0)
        => last.frame.prev_toggles + last.frame.toggle_reqs <= 1

C2_Witness ==
    /\ DoorActionProbed
    /\ last.frame.action = "OPEN" /\ last.frame.probe = "OPEN"
    /\ last.frame.prev_toggles = 1
    /\ last.frame.toggle_reqs = 0

\* C3: a door action whose status probe returns a status other than its target
\* sends exactly one status request and exactly one toggle request, and returns
\* true if and only if the toggle is answered with a status < 400 and body "OK".
C3_ToggleWhenNotInPosition ==
    (DoorActionProbed /\ ~Targets(last.frame.action, last.frame.probe))
        => /\ last.frame.status_reqs = 1
           /\ last.frame.toggle_reqs = 1
           /\ (last.result = "True")
                <=> (last.error = None /\ last.rstatus < 400 /\ last.rbody = "OK")

C3_Witness ==
    /\ DoorActionProbed
    /\ last.frame.action = "CLOSE" /\ last.frame.probe = "OPEN"
    /\ last.rstatus = 200 /\ last.rbody = "OK"
    /\ last.result = "True"

\* C4: no toggle request is in flight that was sent without an explicit token
\* while the session held no token.
C4_NoToggleWithoutToken ==
    \A t \in Tasks :
        ~(/\ task[t].pc = "wait_toggle"
          /\ task[t].token = None
          /\ task[t].sent_token = None)

\* C5: get_status returns one of OPEN, CLOSED, UNKNOWN whenever it gets a
\* response: CLOSED for body "OK", OPEN for "FAIL", UNKNOWN for any other body.
C5_StatusOfBody ==
    (last.frame.op = "get_door_status" /\ last.error = None)
        => /\ last.result \in {"OPEN", "CLOSED", "UNKNOWN"}
           /\ (last.rbody = "OK" => last.result = "CLOSED")
           /\ (last.rbody = "FAIL" => last.result = "OPEN")
           /\ (last.rbody \notin {"OK", "FAIL"} => last.result = "UNKNOWN")

C5_Witness ==
    /\ last.frame.op = "get_door_status"
    /\ last.rbody = "NOPE"
    /\ last.result = "UNKNOWN"

\* C6: get_status returns UNKNOWN when its request ends with a status >= 400,
\* a connection error or a timeout.
C6_StatusUnknownOnTransportFailure ==
    (/\ last.frame.op = "get_door_status"
     /\ last.frame.status_reqs = 1
     /\ (last.error \in {"ClientError", "AssertionError"} \/ last.rstatus >= 400))
        => last.result = "UNKNOWN"

\* C7: authenticate, answered with a success status and a page that holds a
\* webtoken input element, returns success with the value of a webtoken
\* element of that page as token and the page as page content, and the session
\* then holds the token and page content returned.
C7_AuthenticateStoresToken ==
    (AuthenticateAnswered /\ WebTokenValues(last.rpage[1]) # {})
        => /\ last.auth.success
           /\ last.auth.token \in WebTokenValues(last.rpage[1])
           /\ last.auth.page_content = last.rpage
           /\ current_token = last.auth.token
           /\ page_content_bound
           /\ current_page_content = last.auth.page_content

C7_Witness ==
    /\ AuthenticateAnswered
    /\ WebTokenValues(last.rpage[1]) = {"TOK123"}
    /\ last.auth.success
    /\ last.auth.token = "TOK123"
    /\ current_token = "TOK123"

\* C8: authenticate, answered with a success status and a page that holds no
\* token, returns success=false with no token and with the page as page content.
C8_AuthenticateWithoutToken ==
    (AuthenticateAnswered /\ WebTokenValues(last.rpage[1]) = {})
        => last.auth = [success |-> FALSE, token |-> None, page_content |-> last.rpage]

C8_Witness ==
    /\ AuthenticateAnswered
    /\ WebTokenValues(last.rpage[1]) = {}
    /\ ~last.auth.success
    /\ last.auth.page_content = last.rpage

\* C9: authenticate never raises, and returns success=false with no token and
\* no page content when its request fails in transport or is answered with a
\* status >= 400.
C9_AuthenticateFailure ==
    last.frame.op = "authenticate"
        => /\ last.result # "Raised"
           /\ (last.error # None \/ last.rstatus >= 400)
                => last.auth = [success |-> FALSE, token |-> None, page_content |-> NoPage]

C9_Witness ==
    /\ last.frame.op = "authenticate"
    /\ last.frame.post_reqs = 1
    /\ last.rstatus = 404
    /\ last.auth = [success |-> FALSE, token |-> None, page_content |-> NoPage]

\* C10: whenever the session holds a token, the page content it holds is the
\* page that token was extracted from.
C10_TokenWithItsPage ==
    current_token # None
        => /\ page_content_bound
           /\ token_source # NoPage
           /\ current_page_content = token_source
           /\ current_token \in WebTokenValues(current_page_content[1])

C10_Witness ==
    /\ current_token = "55MyToken66"
    /\ current_page_content = token_source
    /\ \E t \in Tasks : task[t].op = "authenticate" /\ task[t].pc = "wait_post"
    /\ last.frame.op = "authenticate" /\ last.auth.success

\* C11: every AuthResponse that authenticate returns has success true if and
\* only if its token is not None, and has success false only when the request
\* failed in transport, was answered with a status >= 400, or was answered
\* with a page that holds no webtoken input element.
C11_AuthResultShape ==
    last.frame.op = "authenticate"
        => /\ last.result = "AuthResponse"
           /\ last.auth.success <=> (last.auth.token # None)
           /\ ~last.auth.success
                => \/ last.error # None
                   \/ last.rstatus >= 400
                   \/ (last.rpage # NoPage /\ WebTokenValues(last.rpage[1]) = {})

C11_Witness ==
    /\ last.frame.op = "authenticate"
    /\ last.frame.post_reqs = 1
    /\ last.error = None /\ last.rstatus = 200
    /\ last.auth.success
    /\ last.auth.token = "55MyToken66"

\* C12: reading udi or is_admin while no authenticate has stored page content
\* yet returns None and does not raise.
C12_PropertiesBeforeLogin ==
    (last.frame.op \in {"udi", "is_admin"} /\ ~page_content_bound)
        => last.result = None /\ last.error = None

\* C13: wait_for_door_state returns true if and only if one of its status
\* polls, answered before the deadline, returned the state waited for, and it
\* returns false, raising nothing, when the deadline passes first.
C13_WaitResult ==
    last.frame.op = "wait_for_door_state"
        => /\ (last.result = "True") <=> last.frame.hit
           /\ last.frame.expired => (last.result = "False" /\ ~last.frame.hit)

C13_Witness ==
    /\ last.frame.op = "wait_for_door_state"
    /\ last.frame.state = "OPEN" /\ last.rbody = "FAIL"
    /\ last.frame.status_reqs = 2
    /\ last.frame.hit
    /\ last.result = "True"

\* C14: a wait whose polls never return the state waited for, none of them
\* failing, returns false at its deadline, and no status request of a wait
\* leaves after the deadline.
C14_FalseAtDeadline ==
    /\ \A t \in Tasks :
          (task[t].op = "wait_for_door_state" /\ task[t].pc = "wait_status")
              => task[t].elapsed <= task[t].timeout
    /\ (/\ last.frame.op = "wait_for_door_state"
        /\ ~last.frame.hit
        /\ (last.error = None \/ last.frame.expired))
           => /\ last.result = "False"
              /\ last.frame.elapsed = last.frame.timeout

C14_Witness ==
    /\ last.frame.op = "wait_for_door_state"
    /\ last.frame.timeout > 0
    /\ last.frame.status_reqs = 2
    /\ last.frame.expired
    /\ last.frame.elapsed = last.frame.timeout
    /\ last.result = "False"

\* C15: a toggle whose request the device answers returns true if the status
\* is < 400 and the body is "OK", and returns false, raising nothing, for any
\* other body and for a status >= 400.
C15_ToggleNeverRaisesOnAnswer ==
    (/\ last.frame.op = "toogle_door_position"
     /\ last.frame.toggle_reqs = 1
     /\ last.error \in {None, "AssertionError"})
        => /\ last.result \in {"True", "False"}
           /\ (last.result = "True") <=> (last.rstatus < 400 /\ last.rbody = "OK")

\* C16: is_alive never raises, and returns true if and only if its request is
\* answered with a status < 400 and the body "1"; it needs no login.
C16_IsAlive ==
    last.frame.op = "is_alive"
        => /\ last.result \in {"True", "False"}
           /\ (last.result = "True")
                <=> (last.error = None /\ last.rstatus < 400 /\ last.rbody = "1")

C16_Witness ==
    /\ last.frame.op = "is_alive"
    /\ last.frame.get_reqs = 1
    /\ last.rstatus = 204 /\ last.rbody = "1"
    /\ current_token = None /\ ~page_content_bound
    /\ last.result = "True"

\* C17: update_available never raises, and returns true only when its request
\* is answered with status 200 and the body "1": it returns false for every
\* other body, for every other status and when the request fails in transport.
C17_UpdateAvailable ==
    last.frame.op = "update_available"
        => /\ last.result \in {"True", "False"}
           /\ (last.result = "True")
                <=> (last.error = None /\ last.rstatus = 200 /\ last.rbody = "1")

C17_Witness ==
    /\ last.frame.op = "update_available"
    /\ last.frame.get_reqs = 1
    /\ last.error = None
    /\ last.rstatus = 200 /\ last.rbody = "2"
    /\ last.result = "False"

\* The session has no administrator rights: no login has stored a page, or
\* the page stored holds no link to the configuration.
NoAdminRights ==
    \/ ~page_content_bound
    \/ /\ current_page_content # NoPage
       /\ \A i \in 1..Len(current_page_content[1]) :
             ~(/\ current_page_content[1][i].kind = "link"
               /\ current_page_content[1][i].value = "config")

\* C18: a get_device_info call that starts on a session without
\* administrator rights sends no request and returns None.
C18_NoDeviceInfoWithoutAdmin ==
    [][(NoAdminRights /\ calls' = calls + 1)
         => /\ \A t \in Tasks :
                 ~(task[t].op = "idle" /\ task'[t].op = "get_device_info")
            /\ last'.frame.op = "get_device_info"
                 => (last'.frame.get_reqs = 0 /\ last'.result = None)]_vars

C18_Witness ==
    /\ last.frame.op = "get_device_info"
    /\ NoAdminRights /\ page_content_bound
    /\ http_client # None /\ session # None /\ ~pool_closed
    /\ last.frame.get_reqs = 0
    /\ last.error = None
    /\ last.result = None

\* C19: the client never closes a connection pool its caller supplied, and a
\* pool the client created is closed once the client is closed.
C19_PoolOwnership ==
    /\ ~private_session => (~pool_closed /\ pool_close_calls = 0)
    /\ (/\ private_session
        /\ (http_client = None \/ session = None
               \/ (last.frame.op \in {"close", "aexit"} /\ last.result # "Raised")))
           => (pool_closed /\ pool_close_calls = 1)

C19_Witness ==
    /\ last.frame.op = "close"
    /\ ~private_session
    /\ http_client = None /\ session = None
    /\ ~pool_closed
    /\ \E t \in Tasks : task[t].op = "get_door_status" /\ task[t].pc = "wait_status"

\* The requests a call has sent so far.
Requests(r) == r.status_reqs + r.toggle_reqs + r.post_reqs + r.get_reqs

\* C20: once the client is closed it stays closed, and no operation sends a
\* request from then on.
C20_ClosedStaysClosed ==
    [][(http_client = None \/ session = None \/ pool_closed)
         => /\ (http_client' = None \/ session' = None \/ pool_closed')
            /\ \A t \in Tasks : Requests(task'[t]) <= Requests(task[t])]_vars

C20_Witness ==
    /\ http_client = None /\ session = None
    /\ last.frame.op = "wait_for_door_state"
    /\ last.frame.timeout > 0
    /\ Requests(last.frame) = 0
    /\ last.error = "AttributeError"
    /\ last.result = "Raised"

\* The positions of the door elements of a page: door inputs with a name.
DoorPositions(page) ==
    { i \in 1..Len(page) : page[i].kind = "door" /\ page[i].value # "" }

\* doors holds one Door per door element of page, in document order.
DoorsInDocumentOrder(doors, page) ==
    /\ Len(doors) = Cardinality(DoorPositions(page))
    /\ \A i \in DoorPositions(page) :
          LET k == Cardinality({ j \in DoorPositions(page) : j <= i })
          IN  doors[k] = [id |-> page[i].id, name |-> page[i].value]

\* C21: the door list extracted from a page holds one Door (id, name) per door
\* element of the page, in document order, and is empty, raising nothing,
\* when the page has no door element.
C21_DoorListOfPage ==
    (last.frame.op \in {"get_doors", "get_doors_from_page_content"} /\ last.page # NoPage)
        => /\ last.result = "Doors"
           /\ DoorsInDocumentOrder(last.doors, last.page[1])
           /\ DoorPositions(last.page[1]) = {} => last.doors = << >>

C21_Witness ==
    /\ last.frame.op = "get_doors"
    /\ current_page_content = last.page
    /\ last.doors = << [id |-> 2, name |-> "Door2"], [id |-> 4, name |-> "Door4"] >>

\* C22: the token and the page content the session stores change only in a
\* step that ends an authenticate call with success true; an authenticate
\* call that returns success false leaves both as they were.
C22_FailedLoginKeepsSession ==
    [][(\/ current_token' # current_token
        \/ current_page_content' # current_page_content
        \/ page_content_bound' # page_content_bound)
         => (last'.frame.op = "authenticate" /\ last'.auth.success)]_vars

\* C23: a wait or a door action whose status probe fails in transport, or is
\* answered with a status >= 400, raises nothing: it ends with true or false.
C23_ProbeFailureNotRaised ==
    (/\ last.frame.op \in {"wait_for_door_state", "door_action"}
     /\ last.frame.status_reqs >= 1
     /\ last.frame.toggle_reqs = 0
     /\ (last.error \in {"ClientError", "AssertionError"} \/ last.rstatus >= 400))
        => last.result \in {"True", "False"}

\* C24: a wait whose deadline is reached while a status request is under way
\* returns false at the deadline, and nothing of the call outlives the
\* deadline: no response reaches it afterwards and it sends no further poll.
C24_DeadlineCutsRequest ==
    /\ \A t \in Tasks : ~(task[t].op = "wait_for_door_state" /\ task[t].expired)
    /\ (/\ last.frame.op = "wait_for_door_state"
        /\ last.frame.expired
        /\ last.frame.polling)
           => /\ last.result = "False"
              /\ ~last.frame.hit
              /\ last.frame.elapsed = last.frame.timeout

C24_Witness ==
    /\ last.frame.op = "wait_for_door_state"
    /\ last.frame.expired
    /\ last.frame.polling
    /\ last.frame.status_reqs = 2
    /\ last.result = "False"
    /\ \A t \in Tasks : task[t].op = "idle"

\* C25: under a fair clock every wait returns, whatever the device answers and
\* whether it answers at all.
C25_WaitReturns ==
    \A t \in Tasks :
        (task[t].op = "wait_for_door_state") ~> (task[t].op # "wait_for_door_state")

C25_Witness ==
    /\ last.frame.op = "wait_for_door_state"
    /\ last.frame.status_reqs = 1
    /\ last.frame.polling
    /\ last.frame.expired
    /\ last.frame.elapsed = last.frame.timeout
    /\ last.frame.timeout > 0

\* C26: the toggle request of a door action called without a token carries the
\* token the session held when the door action was called, whatever login
\* completed since.
C26_ToggleCarriesStartToken ==
    \A t \in Tasks :
        (/\ task[t].op = "door_action"
         /\ task[t].pc = "wait_toggle"
         /\ task[t].token = None)
            => task[t].sent_token = task[t].start_token

\* C27: a toggle request that leaves, from toggle or from a door action,
\* carries the token its caller gave, and the token of the session when the
\* caller gave none; no step but the end of a login changes the stored token.
C27_ToggleToken ==
    [][/\ \A t \in Tasks :
             (task'[t].pc = "wait_toggle" /\ task[t].pc # "wait_toggle")
                 => /\ task'[t].op \in {"toogle_door_position", "door_action"}
                    /\ task[t].op \in {"idle", "done"} \/ task'[t].token = task[t].token
                    /\ task'[t].token # None => task'[t].sent_token = task'[t].token
                    /\ task'[t].token = None => task'[t].sent_token = current_token
                    /\ current_token' = current_token
       /\ current_token' # current_token
             => (last'.frame.op = "authenticate" /\ last'.frame.token = None)]_vars

C27_Witness ==
    \E t \in Tasks :
        /\ task[t].op = "door_action"
        /\ task[t].pc = "wait_toggle"
        /\ task[t].token = "token1"
        /\ task[t].sent_token = "token1"
        /\ current_token = "TOK123"

\* The door list the client of core.py returns for page: one Door per door
\* element, in document order, the id as the page writes it.
CoreDoorsInDocumentOrder(doors, page) ==
    /\ Len(doors) = Cardinality(DoorPositions(page))
    /\ \A i \in DoorPositions(page) :
          LET k == Cardinality({ j \in DoorPositions(page) : j <= i })
          IN  /\ doors[k].name = page[i].value
              /\ \/ doors[k].id = "2" /\ page[i].id = 2
                 \/ doors[k].id = "4" /\ page[i].id = 4
                 \/ doors[k].id = "6" /\ page[i].id = 6

\* C28: the door list a client returns after a successful login is the door
\* list of the page its latest login stored, whatever list it returned before.
C28_DoorListOfLatestPage ==
    /\ (last.frame.op = "get_doors" /\ last.result = "Doors")
           => /\ current_page_content # NoPage
              /\ DoorsInDocumentOrder(last.doors, current_page_content[1])
    /\ (last.frame.op = "core.getDoors" /\ last.result = "Doors"
                                           /\ core.currentToken # None)
           => /\ core.somWebPageContent # NoPage
              /\ CoreDoorsInDocumentOrder(last.doors, core.somWebPageContent[1])

\* The value the pattern of label captures in group on a device info page, or
\* None when no row of the page matches the pattern.
Extracted(page, label, group) ==
    LET rows == { k \in 1..Len(page) :
                    /\ page[k].label = label
                    /\ label = "WiFi signal level:" => page[k].quality # "" }
        first == page[CHOOSE k \in rows : \A j \in rows : k <= j]
    IN  IF rows = {} THEN None
        ELSE IF group = "quality" THEN first.quality
        ELSE IF group = "unit" THEN first.unit
        ELSE first.value

\* C29: a device info request of an admin session that is answered 200
\* returns a DeviceInfo whose every field is absent when its pattern does not
\* match the page and carries what the pattern captured when it does, remote
\* access as whether that is ENABLED.
C29_DeviceInfoFields ==
    (/\ last.frame.op = "get_device_info"
     /\ last.frame.get_reqs = 1
     /\ last.error = None
     /\ last.rstatus = 200)
        => /\ last.result = "DeviceInfo"
           /\ last.info # << >>
           /\ LET page == last.page[1]
                  info == last.info[1]
                  remote == Extracted(page, "Remote Access:", "remote_access")
              IN  /\ remote = None => info.remote_access_enabled = None
                  /\ remote = "ENABLED" => info.remote_access_enabled = "True"
                  /\ remote \notin {None, "ENABLED"} => info.remote_access_enabled = "False"
                  /\ info.firmware_version = Extracted(page, "Firmware version:", "firmware_version")
                  /\ info.ip_address = Extracted(page, "IP Address:", "ip_address")
                  /\ info.wifi_signal_quality = Extracted(page, "WiFi signal level:", "quality")
                  /\ info.wifi_signal_level = Extracted(page, "WiFi signal level:", "level")
                  /\ info.wifi_signal_unit = Extracted(page, "WiFi signal level:", "unit")
                  /\ info.time_zone = Extracted(page, "Time zone:", "time_zone")

\* The frames of the calls in progress and of the call that ended last.
Frames == { task[t] : t \in Tasks } \cup { last.frame }

\* The requests frame f has sent are at most status, toggle, post and get of
\* each kind.
SentAtMost(f, status, toggle, post, get) ==
    /\ f.status_reqs <= status
    /\ f.toggle_reqs <= toggle
    /\ f.post_reqs <= post
    /\ f.get_reqs <= get

\* No call but a wait for a door state sends a request twice.
SingleRequests ==
    \A f \in Frames :
        /\ f.op \in {"is_alive", "update_available", "get_device_info"}
              => SentAtMost(f, 0, 0, 0, 1)
        /\ f.op = "authenticate" => SentAtMost(f, 0, 0, 1, 0)
        /\ f.op = "get_door_status" => SentAtMost(f, 1, 0, 0, 0)
        /\ f.op = "toogle_door_position" => SentAtMost(f, 0, 1, 0, 0)
        /\ f.op = "door_action"
              => /\ SentAtMost(f, 1, 1, 0, 0)
                 /\ f.pc \in {"wait_status", "wait_toggle"} => f.status_reqs = 1
        /\ f.op = "wait_for_door_state" => SentAtMost(f, f.status_reqs, 0, 0, 0)
        /\ f.status_reqs > 1 => f.op = "wait_for_door_state"

\* C30 as stated: no call but a wait sends a request twice, and a door action
\* that has ended has sent exactly one status request.
C30_ExactlyOneProbe ==
    /\ SingleRequests
    /\ last.frame.op = "door_action" => last.frame.status_reqs = 1

\* C30, amended: no call but a wait sends a request twice, and a door action
\* that has ended has sent exactly one status request, or none when the client
\* was closed as it was called and it raised at once.
C30_NoRetry ==
    /\ SingleRequests
    /\ last.frame.op = "door_action"
          => \/ last.frame.status_reqs = 1
             \/ /\ last.frame.status_reqs = 0
                /\ last.frame.toggle_reqs = 0
                /\ last.result = "Raised"
                /\ last.error \in {"AttributeError", "RuntimeError"}
                /\ http_client = None \/ session = None \/ pool_closed

C30_Witness ==
    /\ last.frame.op = "door_action"
    /\ last.frame.status_reqs = 1
    /\ last.frame.toggle_reqs = 1
    /\ last.result = "True"
    /\ \E t \in Tasks : task[t].op = "idle" /\ calls = 1

\* C31: in a run of main.py with a per-door action, a door status or toggle
\* call starts only in the step after a login that returned success, and a
\* wait only after the door action that login allowed; when the login fails
\* the action prints "Authentication failed", no further call but __aexit__
\* is made, and __aexit__ returns with the client closed.
C31_CliNeedsLogin ==
    [][/\ \A t \in Tasks :
             /\ (/\ task[t].op = "idle"
                 /\ \/ task'[t].op \in {"get_door_status", "toogle_door_position",
                                         "door_action"}
                    \/ /\ last'.task = t
                       /\ last'.frame.op \in {"get_door_status", "toogle_door_position",
                                               "door_action"})
                    => /\ last.task = t
                       /\ last.frame.op = "authenticate"
                       /\ last.auth.success = TRUE
                       /\ last.auth.token # "None"
             /\ (task[t].op = "idle" /\ task'[t].op = "wait_for_door_state")
                    => /\ last.frame.op = "door_action"
                       /\ last.result = "True"
                       /\ current_token # "None"
       /\ (cli.pc = "func" /\ cli'.pc = "exit")
             => ((last.frame.op = "authenticate" /\ last.auth.success = FALSE)
                    <=> cli'.printed = "Authentication failed")
       /\ cli'.printed = "Authentication failed"
             => /\ calls' <= 2
                /\ \A t \in Tasks : task'[t].op \in {"idle", "aexit"}
                /\ last'.frame.op \in {"idle", "aexit"}
       /\ (cli'.pc = "exit" /\ last'.frame.op = "aexit")
             => /\ last'.result # "Raised"
                /\ http_client' = "None" \/ session' = "None" \/ pool_closed']_vars

C31_Witness ==
    /\ cli.pc = "exit"
    /\ cli.action = "open"
    /\ cli.printed = "Authentication failed"
    /\ last.frame.op = "aexit"
    /\ session = "None"
    /\ pool_close_calls = 1

\* C32: a getAllDoorStatuses of the client of core.py sends the token the
\* client holds, so the token the previous call returned; when it returns, the
\* client holds the token of field "11" of the response and the list has one
\* status per known door, in the order of the door list: Closed for the
\* string "0", Open for the integer 1, Unknown for anything else.
C32_AllDoorStatuses ==
    [][(last'.frame.op = "core.getAllDoorStatuses" /\ last'.frame.get_reqs = 1)
          => /\ last'.frame.sent_token = core.currentToken
             /\ (last.frame.op = "core.getAllDoorStatuses" /\ last.result = "Statuses")
                   => last'.frame.sent_token = last.rbody.data["11"].text
             /\ last'.result = "Statuses"
                   => /\ core'.currentToken = last'.rbody.data["11"].text
                      /\ core'.doors # << >>
                      /\ Len(last'.doors) = Len(core'.doors[1])
                      /\ \A k \in 1..Len(last'.doors) :
                            LET id == core'.doors[1][k].id
                                value == last'.rbody.data[id]
                            IN  /\ last'.doors[k].id = id
                                /\ (value.type = "str" /\ value.text = "0")
                                      => last'.doors[k].status = "Closed"
                                /\ (value.type = "int" /\ value.text = "1")
                                      => last'.doors[k].status = "Open"
                                /\ (~(value.type = "str" /\ value.text = "0")
                                          /\ ~(value.type = "int" /\ value.text = "1"))
                                      => last'.doors[k].status = "Unknown"]_vars

C32_Witness ==
    /\ last.frame.op = "core.getAllDoorStatuses"
    /\ last.result = "Statuses"
    /\ last.frame.sent_token = "token2"
    /\ core.currentToken = "token3"
    /\ last.doors = << [id |-> "2", status |-> "Unknown"], [id |-> "4", status |-> "Unknown"] >>

\* The frame of the call that coroutine t starts in a step: the frame it is
\* suspended in, or the one it returned from when the call ended at once.
StartedFrame(t) == IF last'.task = t THEN last'.frame ELSE task'[t]

\* C33: calling a deprecated alias touches neither the session nor the
\* transport, and its body is the call of its async_ counterpart with the
\* arguments the alias was given: the same operation on the same door, with the
\* same action, state, timeout and token, run from there on as any such call.
C33_AliasIsCanonicalCall ==
    [][\A t \in Tasks :
          /\ (task[t].alias.name = "None" /\ task'[t].alias.name # "None")
                => /\ task'[t].op = "idle"
                   /\ calls' = calls
                   /\ current_token' = current_token
                   /\ current_page_content' = current_page_content
                   /\ http_client' = http_client
                   /\ session' = session
                   /\ pool_closed' = pool_closed
                   /\ \A u \in Tasks \ {t} : task'[u] = task[u]
          /\ (task[t].alias.name # "None" /\ task'[t] # task[t])
                => LET a == task[t].alias
                       f == StartedFrame(t)
                   IN  /\ calls' = calls + 1
                       /\ f.alias.name = "None"
                       /\ a.name = "is_alive" => f.op = "is_alive"
                       /\ a.name = "authenticate" => f.op = "authenticate"
                       /\ a.name = "get_door_status"
                             => f.op = "get_door_status" /\ f.door = a.door
                       /\ a.name = "wait_for_door_state"
                             => /\ f.op = "wait_for_door_state"
                                /\ f.door = a.door
                                /\ f.state = a.state
                                /\ f.timeout = a.timeout
                       /\ a.name = "open_door"
                             => /\ f.op = "door_action" /\ f.action = "OPEN"
                                /\ f.door = a.door /\ f.token = a.token
                       /\ a.name = "close_door"
                             => /\ f.op = "door_action" /\ f.action = "CLOSE"
                                /\ f.door = a.door /\ f.token = a.token
                       /\ a.name = "door_action"
                             => /\ f.op = "door_action" /\ f.action = a.action
                                /\ f.door = a.door /\ f.token = a.token
                       /\ a.name = "toogle_door_position"
                             => /\ f.op = "toogle_door_position"
                                /\ f.door = a.door /\ f.token = a.token]_vars

C33_Witness ==
    /\ last.frame.op = "door_action"
    /\ last.frame.action = "OPEN"
    /\ last.frame.token = "token1"
    /\ last.frame.sent_token = "token1"
    /\ last.result = "True"
    /\ calls = 1
    /\ \A t \in Tasks : task[t].alias.name = "None"

\* C34: two door actions in progress at once on one client, with the same
\* action for the same door and both probed outside the target state, have
\* sent at most one toggle request between them.
C34_OneToggleForConcurrentActions ==
    \A t, u \in Tasks :
        (/\ t # u
         /\ task[t].op = "door_action" /\ task[u].op = "door_action"
         /\ task[t].door = task[u].door
         /\ task[t].action = task[u].action
         /\ task[t].probe \in {"OPEN", "CLOSED", "UNKNOWN"}
         /\ task[u].probe \in {"OPEN", "CLOSED", "UNKNOWN"}
         /\ ~Targets(task[t].action, task[t].probe)
         /\ ~Targets(task[u].action, task[u].probe))
            => task[t].toggle_reqs + task[u].toggle_reqs <= 1

\* C35: a door action whose probe returned UNKNOWN, for OPEN as for CLOSE,
\* has sent one toggle request, and returns what the toggle returns: true for
\* an answer OK below status 400, false for any other answer, and the
\* exception when the toggle raised.  The same holds of the client of core.py.
C35_UnknownProbeToggles ==
    /\ \A t \in Tasks :
          (task[t].op = "door_action" /\ task[t].probe = "UNKNOWN")
              => task[t].pc = "wait_toggle" /\ task[t].toggle_reqs = 1
    /\ (last.frame.op \in {"door_action", "core.doorAction"}
            /\ last.frame.probe \in {"UNKNOWN", "Unknown"})
          => /\ last.frame.action \in {"OPEN", "CLOSE", "Open", "Close"}
             /\ last.frame.toggle_reqs = 1
             /\ last.error # "None" => last.result = "Raised"
             /\ (last.error = "None" /\ last.rstatus < 400 /\ last.rbody = "OK")
                   => last.result = "True"
             /\ (last.error = "None" /\ ~(last.rstatus < 400 /\ last.rbody = "OK"))
                   => last.result = "False"

C35_Witness ==
    /\ last.frame.op = "door_action"
    /\ last.frame.action = "CLOSE"
    /\ last.frame.probe = "UNKNOWN"
    /\ last.frame.toggle_reqs = 1
    /\ last.result = "True"

\* C36: every close() and every __aexit__ returns without raising, with the
\* client closed and a pool the client created closed exactly once, whatever
\* teardown came before.
C36_TeardownIdempotent ==
    last.frame.op \in {"close", "aexit"}
        => /\ last.result # "Raised"
           /\ last.error = "None"
           /\ http_client = "None" \/ session = "None" \/ pool_closed
           /\ private_session => (pool_closed /\ pool_close_calls = 1)
           /\ ~private_session => pool_close_calls = 0

\* C37: a wait whose first status poll returns the state waited for returns
\* true after that one status request and without having slept; and every
\* further status request of a wait leaves from the end of one sleep of
\* CHECK_DOOR_STATE_INTERVAL (2) seconds, the only sleep since the request
\* before it.
C37_OneSleepBetweenPolls ==
    [][\A t \in Tasks :
          /\ (/\ task[t].op = "wait_for_door_state"
              /\ task'[t].op = "wait_for_door_state"
              /\ task'[t].status_reqs # task[t].status_reqs)
                 => /\ task'[t].status_reqs = task[t].status_reqs + 1
                    /\ task[t].pc = "sleep"
                    /\ task'[t].pc = "wait_status"
                    /\ task[t].sleeps = task[t].status_reqs
                    /\ task'[t].sleeps = task[t].sleeps
                    /\ task'[t].elapsed = task[t].elapsed + 2
          /\ (/\ task[t].op = "wait_for_door_state"
              /\ task[t].pc = "wait_status"
              /\ task[t].status_reqs = 1
              /\ last'.task = t
              /\ last'.error = "None"
              /\ \/ task[t].state = "CLOSED" /\ last'.rbody = "OK"
                 \/ task[t].state = "OPEN" /\ last'.rbody = "FAIL")
                 => /\ last'.result = "True"
                    /\ last'.frame.status_reqs = 1
                    /\ last'.frame.sleeps = 0
                    /\ task[t].sleeps = 0
                    /\ last'.frame.elapsed - task[t].elapsed <= MaxDelay
    ]_vars

C37_Witness ==
    /\ last.frame.op = "wait_for_door_state"
    /\ last.frame.state = "CLOSED" /\ last.rbody = "OK"
    /\ last.frame.status_reqs = 1
    /\ last.frame.sleeps = 0
    /\ last.result = "True"
    /\ \E t \in Tasks : /\ task[t].op = "wait_for_door_state"
                        /\ task[t].status_reqs = 2
                        /\ task[t].sleeps = 1

====
